---- MODULE Spec2Model ----
(***************************************************************************)
(* A model of the meal-planning client: the Recipes, Calendar, Menu,       *)
(* Shopping, Inventory and Diary views, the remote document store they     *)
(* talk to, and the derivation functions the views compute.                *)
(*                                                                         *)
(* Strings are sequences of character codes, so that toLowerCase(),        *)
(* includes() and localeCompare() are computed and not assumed.  A field   *)
(* that is undefined in JavaScript is a field that is absent from the      *)
(* record (as in a Firestore document that lacks the key).                 *)
(***************************************************************************)
EXTENDS Integers, Sequences, FiniteSets, TLC

VARIABLES
  \* ---- Recipes view (src/src/pages/Recipes.tsx) ----
  recipe,          \* the recipe a derivation or the add-missing handler is applied to
  inventory,       \* useState<InventoryItem[]>: the in-memory inventory
  currentList,     \* useState<ShoppingList | null>: NoList or a list id
  allInStock,      \* the value hasAllIngredientsInStock(recipe) returned
  rowInStock,      \* RecipeModal: what checkIngredientInStock returned, per row
  stockPc,         \* "input" | "applied": position of the derivation
  addPc,           \* position of handleAddMissingIngredients
  addList,         \* the currentList.id the running handler closed over
  missing,         \* the handler's local missingIngredients
  addK,            \* number of loop iterations whose addDoc has resolved
  alerted,         \* whether alert('Missing ingredients added ...') was shown
  invFetch,        \* "pending" | "done" | "failed": fetchInventory
  listFetch,       \* "pending" | "done" | "failed": fetchShoppingLists
  rvShoppingLists, \* useState<ShoppingList[]> (shoppingLists)
  showIngredients, \* useState<{ [key: string]: boolean }>: recipe id -> shown
  selectedRecipe,  \* useState<Recipe | null>: NoRecipe or the recipe
  selectedRecipeId,\* location.state?.selectedRecipeId: 0 (undefined) or an id
  recipesFetch,    \* "pending" | "done" | "failed": fetchRecipes
  \* ---- a component's render or a form's handler, on given props ----
  props,           \* the props and state the computation reads
  shown,           \* what it computed
  renderPc,        \* "idle" | "input" | "applied" | "threw"
  \* ---- the remote store ----
  storeInventory,  \* collection 'inventory': sequence of documents
  storeLists,      \* collection 'shoppingLists': sequence of list ids
  storeItems,      \* sub-collections 'shoppingLists/<id>/items': id -> documents
  \* ---- Inventory view (src/src/pages/Inventory.tsx): expiration colour ----
  expirationDate,  \* item.expirationDate: NoDate or a day number ("yyyy-MM-dd")
  nowMs,           \* new Date().getTime(): the current instant, in ms
  tzOffsetMs,      \* local time minus UTC, in ms
  expStatus,       \* "none" | "expiringSoon" | "expired": the colour shown
  expPc,           \* "input" | "applied"
  \* ---- Inventory view (src/src/pages/Inventory.tsx): the item list ----
  ivInventory,     \* useState<InventoryItem[]> (inventory)
  isAddModalOpen,  \* useState(false)
  selectedItem,    \* useState<InventoryItem | null>: NoItem or the item
  ivFetch,         \* "pending" | "done" | "failed": fetchInventory
  ivOps,           \* handler calls of the Inventory view awaiting the store
  \* ---- Shopping view (src/src/pages/ShoppingList.tsx) ----
  shoppingLists,   \* useState<ShoppingList[]>
  slCurrentList,   \* useState<ShoppingList | null> (currentList): NoList or its id
  items,           \* useState<ShoppingItem[]>
  selectedItems,   \* useState<string[]>
  slFetch,         \* "pending" | "done" | "failed": fetchShoppingLists
  itemFetches,     \* list ids whose fetchItems call is in flight
  clickedList,     \* the list the dropdown's onClick last ran for, or NoList
  ops,             \* handler calls awaiting the store, each with its closure
  toggledBack,     \* history: a toggle has returned a completed item to pending
  \* ---- the router (src/unnamed/part_000) ----
  planView,        \* "none" | "recipes" | "menu" | "calendar": the mounted view
  \* ---- the remote store: recipes, menus and the calendar ----
  storeRecipeDocs, \* collection 'menu': the recipe documents
  storeMenus,      \* collection 'menus': the menu documents
  storeCalendar,   \* collection 'calendar': the calendar entry documents
  \* ---- Recipes view: the recipe list (src/src/pages/Recipes.tsx) ----
  recipes,         \* useState<Recipe[]>
  \* ---- Menu view (src/src/pages/Menu.tsx) ----
  menus,           \* useState<MenuItem[]>
  menuRecipes,     \* useState<Recipe[]> (recipes): the recipes a menu form offers
  \* ---- Calendar view (src/unnamed/part_001) ----
  calendarEntries, \* useState<CalendarEntry[]>
  calFetch,        \* "pending" | "done" | "failed": fetchCalendarEntries
  modalMenus,      \* AddMenuModal: useState<MenuItem[]> (menus)
  planOps,         \* handler calls of these three views awaiting the store
  menuAtWrite,     \* history: entry id -> the menu handleSaveMenu attached to it
  \* ---- Diary view (src/src/pages/Diary.tsx) ----
  storeDiary,      \* collection 'diary'
  entries,         \* useState<DiaryEntry[]>
  diaryFetch,      \* "pending" | "done" | "failed": fetchDiaryEntries
  diaryModal,      \* "closed" | "add" | "edit": which DiaryModal is open
  formData,        \* DiaryModal: useState(initialData || {...})
  shared,          \* meal types whose array formData shares with the entry shown
  openedEntry,     \* history: the entry as it was when handleEdit opened the form
  diaryOps         \* handler calls of the Diary view awaiting the store

recipesVars == <<recipe, inventory, currentList, allInStock, rowInStock, stockPc, addPc,
                 addList, missing, addK, alerted, invFetch, listFetch, rvShoppingLists>>
\* No computation is being followed: no inputs, no result.
NoProps == [none |-> TRUE]

mountVars == <<showIngredients, selectedRecipe, selectedRecipeId, recipesFetch>>
renderVars == <<props, shown, renderPc>>
storeRecipesVars == <<storeInventory, storeLists, storeItems>>

expiryVars == <<expirationDate, nowMs, tzOffsetMs, expStatus, expPc>>

inventoryVars == <<ivInventory, isAddModalOpen, selectedItem, ivFetch, ivOps>>

shoppingVars == <<shoppingLists, slCurrentList, items, selectedItems, slFetch,
                  itemFetches, clickedList, ops, toggledBack>>

planVars == <<storeRecipeDocs, storeMenus, storeCalendar, recipes, menus,
              menuRecipes, calendarEntries, calFetch, modalMenus, planOps,
              menuAtWrite, planView>>

diaryVars == <<storeDiary, entries, diaryFetch, diaryModal, formData, shared,
               openedEntry,
               diaryOps>>

vars == <<recipesVars, mountVars, renderVars, storeRecipesVars, expiryVars, inventoryVars, shoppingVars,
          planVars, diaryVars>>

\* What the actions of the Recipes view leave alone.
outsideRecipes == <<mountVars, renderVars, expiryVars, inventoryVars, shoppingVars, planVars, diaryVars>>

------------------------------------------------------------------------------
(* Strings *)

\* String.prototype.toLowerCase on one character code (ASCII letters).
LowerChar(c) == IF c \in 65..90 THEN c + 32 ELSE c

\* String.prototype.toLowerCase
ToLowerCase(s) == [i \in 1..Len(s) |-> LowerChar(s[i])]

\* String.prototype.includes: t occurs in s as a contiguous substring.
Includes(s, t) ==
  \E i \in 0..(Len(s) - Len(t)) : SubSeq(s, i + 1, i + Len(t)) = t

\* The names the model draws from: "", "a", "A", "ab", "Ab", "b".
Names == { <<>>, <<97>>, <<65>>, <<97, 98>>, <<65, 98>>, <<98>> }

\* Sequences over S of length at most n.
SeqUpTo(S, n) == UNION { [1..k -> S] : k \in 0..n }

------------------------------------------------------------------------------
(* Bounds *)

MaxIngredients == 2
MaxInventory == 2
MaxLists == 2
MaxIds == 4
MaxDay == 12
MaxItems == 2
MaxItemIds == 2
MaxOps == 1
MaxMenus == 1
MaxEntries == 1
MaxCalendarDay == 1
MaxDiary == 2
MaxDiaryDay == 2
MaxMealItems == 1
MaxMenuRecipes == 2
MaxRecords == 2
MaxProducts == 2
MaxInvOps == 2

------------------------------------------------------------------------------
(* Derivations of the Recipes view *)

\* The value of a string expression that evaluated to undefined.
Undefined == << -1 >>

\* ingredient.name / ingredient?.name
NameOf(x) == IF "name" \in DOMAIN x THEN x.name ELSE Undefined

\* JavaScript truthiness of a string-or-undefined value.
Truthy(s) == s # Undefined /\ s # <<>>

\* A check without the guard on the ingredient name.
CheckIngredientUnguarded(ingredient, inv) ==
  LET ingredientLower == IF ingredient = Undefined THEN <<>> ELSE ToLowerCase(ingredient)
  IN  \E k \in 1..Len(inv) :
        /\ "name" \in DOMAIN inv[k]
        /\ Includes(ToLowerCase(inv[k].name), ingredientLower)

\* Recipes.checkIngredientInStock, over the inventory the closure sees.
CheckIngredientInStock(ingredient, inv) ==
  IF ~Truthy(ingredient) THEN FALSE
  ELSE LET ingredientLower == ToLowerCase(ingredient)
       IN  \E k \in 1..Len(inv) :
             /\ "name" \in DOMAIN inv[k]
             /\ Includes(ToLowerCase(inv[k].name), ingredientLower)

\* A variant that also rejects the empty ingredient list.
HasAllRejectingEmpty(r, inv) ==
  /\ "ingredients" \in DOMAIN r
  /\ Len(r.ingredients) > 0
  /\ \A k \in 1..Len(r.ingredients) :
        /\ Truthy(NameOf(r.ingredients[k]))
        /\ CheckIngredientInStock(NameOf(r.ingredients[k]), inv)

\* Recipes.hasAllIngredientsInStock
HasAllIngredientsInStock(r, inv) ==
  IF "ingredients" \notin DOMAIN r THEN FALSE
  ELSE \A k \in 1..Len(r.ingredients) :
         /\ Truthy(NameOf(r.ingredients[k]))
         /\ CheckIngredientInStock(NameOf(r.ingredients[k]), inv)

\* The older Recipes view (ingredients: string[]): checkIngredientInStock
\* without the undefined checks.
CheckIngredientInStockV1(ingredient, inv) ==
  LET ingredientLower == ToLowerCase(ingredient)
  IN  \E k \in 1..Len(inv) : Includes(ToLowerCase(inv[k].name), ingredientLower)

\* The older Recipes view: hasAllIngredientsInStock.
HasAllIngredientsInStockV1(r, inv) ==
  \A k \in 1..Len(r.ingredients) :
    CheckIngredientInStockV1(r.ingredients[k].name, inv)

\* The inputs on which the older view's derivation does not throw a
\* TypeError: every string it lower-cases is defined.
V1Defined(r, inv) ==
  /\ "ingredients" \in DOMAIN r
  /\ \A k \in 1..Len(r.ingredients) : "name" \in DOMAIN r.ingredients[k]
  /\ (Len(r.ingredients) > 0 => \A k \in 1..Len(inv) : "name" \in DOMAIN inv[k])

\* A filter that also drops an ingredient equal to an earlier one.
MissingIngredientsDistinct(r, inv) ==
  LET kept == { k \in 1..Len(r.ingredients) :
                  /\ ~CheckIngredientInStock(NameOf(r.ingredients[k]), inv)
                  /\ \A i \in 1..(k - 1) : r.ingredients[i] # r.ingredients[k] }
      Nth(j) == CHOOSE k \in kept : Cardinality({ i \in kept : i <= k }) = j
  IN  [j \in 1..Cardinality(kept) |-> r.ingredients[Nth(j)]]

\* recipe.ingredients.filter(ingredient => !checkIngredientInStock(ingredient.name))
MissingIngredients(r, inv) ==
  SelectSeq(r.ingredients, LAMBDA g : ~CheckIngredientInStock(NameOf(g), inv))

------------------------------------------------------------------------------
(* The store's listing order, and the Shopping view's sort *)

\* docs with d put after the documents whose id is not larger.
InsertById(docs, d) ==
  LET k == Cardinality({ i \in 1..Len(docs) : docs[i].id <= d.id })
  IN  SubSeq(docs, 1, k) \o <<d>> \o SubSeq(docs, k + 1, Len(docs))

RECURSIVE ListAll(_)
\* getDocs(collection(...)).docs: the documents in order of document id.
ListAll(docs) ==
  IF docs = <<>> THEN <<>>
  ELSE InsertById(ListAll(SubSeq(docs, 1, Len(docs) - 1)), docs[Len(docs)])

RECURSIVE LexCompare(_, _)
\* Lexicographic comparison of two sequences of numbers: -1, 0 or 1.
LexCompare(a, b) ==
  IF a = <<>> /\ b = <<>> THEN 0
  ELSE IF a = <<>> THEN -1
  ELSE IF b = <<>> THEN 1
  ELSE IF Head(a) < Head(b) THEN -1
  ELSE IF Head(a) > Head(b) THEN 1
  ELSE LexCompare(Tail(a), Tail(b))

\* 1 for an upper-case letter, 0 otherwise.
CaseKey(s) == [i \in 1..Len(s) |-> IF s[i] \in 65..90 THEN 1 ELSE 0]

\* String.prototype.localeCompare on ASCII letters (default collation):
\* letters compare without regard to case; strings equal up to case are
\* ordered lower case first.
LocaleCompare(a, b) ==
  LET primary == LexCompare(ToLowerCase(a), ToLowerCase(b))
  IN  IF primary # 0 THEN primary ELSE LexCompare(CaseKey(a), CaseKey(b))

\* s (sorted) with x put after the elements that do not compare greater.
InsertByName(s, x) ==
  LET k == Cardinality({ i \in 1..Len(s) : LocaleCompare(s[i].name, x.name) <= 0 })
  IN  SubSeq(s, 1, k) \o <<x>> \o SubSeq(s, k + 1, Len(s))

RECURSIVE SortedByName(_)
\* The array after .sort((a, b) => a.name.localeCompare(b.name)), a stable sort.
SortedByName(s) ==
  IF s = <<>> THEN <<>>
  ELSE InsertByName(SortedByName(SubSeq(s, 1, Len(s) - 1)), s[Len(s)])

\* A sort that leaves the array as it is.
SortByNameSkipped(s) == s

\* array.sort((a, b) => a.name.localeCompare(b.name))
SortByName(s) == SortedByName(s)

\* interface Ingredient, and an ingredient stored without a name.
Ingredients == { [name |-> n] : n \in Names } \cup { [unit |-> "cups"] }

\* interface Recipe (the fields the derivations read), and a stored recipe
\* document without an ingredients field.
RecipeInputs ==
  { [id |-> 1, ingredients |-> g] : g \in SeqUpTo(Ingredients, MaxIngredients) }
    \cup { [id |-> 1] }

\* docs.map(doc => ({ id: doc.id, ...doc.data() }))
WithIds(docs) == [k \in 1..Len(docs) |-> docs[k] @@ [id |-> k]]

\* interface InventoryItem (id and name), and an item stored without a name.
InventoryData == { [name |-> n] : n \in Names } \cup { [unit |-> "kg"] }
InventoryInputs == { WithIds(d) : d \in SeqUpTo(InventoryData, MaxInventory) }

NoList == 0
NoDate == -1

\* selectedItem === null
NoItem == [id |-> 0]

\* The Inventory view's item list before the view is opened.
\* useState<Recipe | null>(null)
NoRecipe == [id |-> 0]

\* The recipe list's own state when another view is mounted.
RenderIdle ==
  /\ props = NoProps
  /\ shown = NoProps
  /\ renderPc = "idle"

MountIdle ==
  /\ showIngredients = <<>>
  /\ selectedRecipe = NoRecipe
  /\ selectedRecipeId = 0
  /\ recipesFetch = "done"

InventoryIdle ==
  /\ ivInventory = <<>>
  /\ isAddModalOpen = FALSE
  /\ selectedItem = NoItem
  /\ ivFetch = "done"
  /\ ivOps = {}

\* The Inventory view's expiration state when no item is being rendered.
ExpiryIdle ==
  /\ expirationDate = NoDate
  /\ nowMs = 0
  /\ tzOffsetMs = 0
  /\ expStatus = "none"
  /\ expPc = "input"

\* The Shopping view before it is mounted.
ShoppingIdle ==
  /\ shoppingLists = <<>>
  /\ slCurrentList = NoList
  /\ items = <<>>
  /\ selectedItems = <<>>
  /\ slFetch = "done"
  /\ itemFetches = {}
  /\ clickedList = NoList
  /\ ops = {}
  /\ toggledBack = FALSE

\* State of the Recipes view that the derivation specification leaves alone.
RecipesIdle ==
  /\ currentList = NoList
  /\ addPc = "idle"
  /\ addList = NoList
  /\ missing = <<>>
  /\ addK = 0
  /\ alerted = FALSE
  /\ invFetch = "done"
  /\ listFetch = "done"
  /\ rvShoppingLists = <<>>
  /\ storeInventory = <<>>
  /\ storeLists = <<>>
  /\ storeItems = <<>>

\* The Recipes list, the Menu view and the Calendar view before they are
\* mounted, over an empty store.
PlanIdle ==
  /\ storeRecipeDocs = <<>>
  /\ storeMenus = <<>>
  /\ storeCalendar = <<>>
  /\ recipes = <<>>
  /\ menus = <<>>
  /\ menuRecipes = <<>>
  /\ calendarEntries = <<>>
  /\ calFetch = "done"
  /\ modalMenus = <<>>
  /\ planOps = {}
  /\ menuAtWrite = <<>>
  /\ planView = "none"

\* The Diary view before it is mounted, over an empty store.
DiaryIdle ==
  /\ storeDiary = <<>>
  /\ entries = <<>>
  /\ diaryFetch = "done"
  /\ diaryModal = "closed"
  /\ formData = [date |-> NoDate]
  /\ shared = {}
  /\ openedEntry = [date |-> NoDate]
  /\ diaryOps = {}

InitStock ==
  /\ recipe \in RecipeInputs
  /\ inventory \in InventoryInputs
  /\ allInStock = FALSE
  /\ rowInStock = <<>>
  /\ stockPc = "input"
  /\ RecipesIdle
  /\ ExpiryIdle
  /\ RenderIdle
  /\ InventoryIdle
  /\ MountIdle
  /\ PlanIdle
  /\ DiaryIdle
  /\ ShoppingIdle

\* The recipe card evaluates hasAllIngredientsInStock(recipe) for its badge.
RenderStockBadge ==
  /\ stockPc = "input"
  /\ allInStock' = HasAllIngredientsInStock(recipe, inventory)
  /\ stockPc' = "applied"
  /\ UNCHANGED outsideRecipes
  /\ UNCHANGED <<rvShoppingLists, recipe, inventory, currentList, rowInStock, addPc, addList,
                 missing, addK, alerted, invFetch, listFetch, storeRecipesVars>>

\* The older view's recipe card does the same with its own derivation.
RenderStockBadgeV1 ==
  /\ stockPc = "input"
  /\ IF V1Defined(recipe, inventory)
       THEN /\ allInStock' = HasAllIngredientsInStockV1(recipe, inventory)
            /\ stockPc' = "appliedV1"
       ELSE /\ allInStock' = allInStock
            /\ stockPc' = "threwV1"
  /\ UNCHANGED outsideRecipes
  /\ UNCHANGED <<rvShoppingLists, recipe, inventory, currentList, rowInStock, addPc, addList,
                 missing, addK, alerted, invFetch, listFetch, storeRecipesVars>>

\* RecipeModal renders one row per ingredient, each with
\* checkIngredientInStock(ingredient.name); recipe.ingredients undefined
\* throws a TypeError in the render.
RenderIngredientRows ==
  /\ stockPc = "input"
  /\ IF "ingredients" \in DOMAIN recipe
       THEN /\ rowInStock' =
                 [k \in 1..Len(recipe.ingredients) |->
                    CheckIngredientInStock(NameOf(recipe.ingredients[k]), inventory)]
            /\ stockPc' = "rows"
       ELSE /\ rowInStock' = rowInStock
            /\ stockPc' = "threwRows"
  /\ UNCHANGED outsideRecipes
  /\ UNCHANGED <<rvShoppingLists, recipe, inventory, currentList, allInStock, addPc, addList,
                 missing, addK, alerted, invFetch, listFetch, storeRecipesVars>>

NextStock == RenderStockBadge \/ RenderStockBadgeV1 \/ RenderIngredientRows

SpecStock == InitStock /\ [][NextStock]_vars

------------------------------------------------------------------------------
(* C1 *)

\* C1 (as stated): hasAllIngredientsInStock is true iff the ingredient list
\* is non-empty and every ingredient is in stock; zero ingredients give false.
C1_Original ==
  stockPc = "applied" =>
    (allInStock <=>
       /\ "ingredients" \in DOMAIN recipe
       /\ Len(recipe.ingredients) > 0
       /\ \A k \in 1..Len(recipe.ingredients) :
             CheckIngredientInStock(NameOf(recipe.ingredients[k]), inventory))

\* C1 (amended): hasAllIngredientsInStock is true iff the ingredient list is
\* defined and every ingredient of it is in stock (an ingredient without a
\* name or with an empty name is not); a recipe with zero ingredients yields
\* true for every inventory, a recipe without an ingredient list false.  The
\* older view's function, where it returns, is true iff every ingredient is
\* in stock, and true for zero ingredients as well.
C1_HasAll ==
  /\ stockPc = "applied" =>
       /\ allInStock <=>
            /\ "ingredients" \in DOMAIN recipe
            /\ \A k \in 1..Len(recipe.ingredients) :
                  CheckIngredientInStock(NameOf(recipe.ingredients[k]), inventory)
       /\ ("ingredients" \in DOMAIN recipe /\ recipe.ingredients = <<>>) => allInStock
       /\ "ingredients" \notin DOMAIN recipe => ~allInStock
  /\ stockPc = "appliedV1" =>
       /\ allInStock <=>
            \A k \in 1..Len(recipe.ingredients) :
              CheckIngredientInStockV1(recipe.ingredients[k].name, inventory)
       /\ recipe.ingredients = <<>> => allInStock

\* A recipe with zero ingredients has been badged against a stocked inventory.
C1_Witness ==
  /\ stockPc = "applied"
  /\ "ingredients" \in DOMAIN recipe
  /\ recipe.ingredients = <<>>
  /\ Len(inventory) > 0
  /\ allInStock

------------------------------------------------------------------------------
(* C14 *)

\* The name n occurs in the name s when letters are compared without regard
\* to case.
OccursIgnoringCase(n, s) ==
  \E off \in 0..(Len(s) - Len(n)) :
    \A i \in 1..Len(n) : LowerChar(s[off + i]) = LowerChar(n[i])

\* C14: a row's checkIngredientInStock result is true iff the ingredient
\* name is defined and non-empty and occurs, compared case-insensitively, in
\* the name of some inventory item that has a name; an empty or undefined
\* ingredient name yields false.
C14_IngredientInStock ==
  stockPc = "rows" =>
    /\ Len(rowInStock) = Len(recipe.ingredients)
    /\ \A k \in 1..Len(rowInStock) :
         LET g == recipe.ingredients[k]
         IN  IF "name" \notin DOMAIN g \/ g.name = <<>>
               THEN ~rowInStock[k]
               ELSE rowInStock[k] <=>
                      \E i \in 1..Len(inventory) :
                        /\ "name" \in DOMAIN inventory[i]
                        /\ OccursIgnoringCase(g.name, inventory[i].name)

\* The rows of a recipe with ingredients "a" and "" have been rendered over
\* an inventory of an item "Ab" and an item without a name: "a" is in stock,
\* "" is not.
C14_Witness ==
  /\ stockPc = "rows"
  /\ recipe.ingredients = <<[name |-> <<97>>], [name |-> <<>>]>>
  /\ Len(inventory) = 2
  /\ inventory[1].name = <<65, 98>>
  /\ "name" \notin DOMAIN inventory[2]
  /\ rowInStock = <<TRUE, FALSE>>

------------------------------------------------------------------------------
(* The Recipes view: its fetches and "add missing ingredients" *)

\* The names the stored recipes and inventory draw from: "a", "Ab", "b".
StoreNames == { <<97>>, <<65, 98>>, <<98>> }

StoreIngredients == { [name |-> n] : n \in StoreNames } \cup { [unit |-> "cups"] }

StoreRecipes ==
  { [id |-> 1, ingredients |-> g] : g \in SeqUpTo(StoreIngredients, MaxIngredients) }
    \cup { [id |-> 1] }

StoreInventories ==
  { WithIds(d) : d \in SeqUpTo({ [name |-> <<97>>], [name |-> <<97, 98>>],
                                 [unit |-> "kg"] }, MaxInventory) }

\* Document ids the store can assign.
Ids == 1..MaxIds

IdsOf(docs) == { docs[k].id : k \in 1..Len(docs) }

\* The item already stored in list 1 when the view opens.
StoredItem == [id |-> 1, name |-> <<98>>, category |-> "Produce",
               completed |-> FALSE, products |-> <<>>]

\* The items sub-collections when the view opens: list 1 holds one item.
InitialItems(lists) ==
  [l \in IdsOf(lists) |-> IF l = 1 THEN <<StoredItem>> ELSE <<>>]

\* A written document that starts out completed.
MissingItemCompleted(g) ==
  [name |-> NameOf(g), category |-> "Ingredients", completed |-> TRUE,
   products |-> <<>>]

\* The document handleAddMissingIngredients writes for one ingredient.
MissingItem(g) ==
  IF "name" \in DOMAIN g
    THEN [name |-> g.name, category |-> "Ingredients", completed |-> FALSE,
          products |-> <<>>]
    ELSE [category |-> "Ingredients", completed |-> FALSE, products |-> <<>>]

\* Firestore rejects a document that holds an undefined field value
\* (getFirestore(app) is used without ignoreUndefinedProperties).
Storable(g) == "name" \in DOMAIN g

InitRecipes ==
  /\ recipe \in StoreRecipes
  /\ storeInventory \in StoreInventories
  /\ storeLists \in { WithIds([k \in 1..n |-> [name |-> <<>>]]) : n \in 0..MaxLists }
  /\ storeItems = InitialItems(storeLists)
  /\ inventory = <<>>
  /\ currentList = NoList
  /\ allInStock = FALSE
  /\ rowInStock = <<>>
  /\ stockPc = "input"
  /\ addPc = "idle"
  /\ addList = NoList
  /\ missing = <<>>
  /\ addK = 0
  /\ alerted = FALSE
  /\ invFetch = "pending"
  /\ listFetch = "pending"
  /\ rvShoppingLists = <<>>
  /\ ExpiryIdle
  /\ RenderIdle
  /\ InventoryIdle
  /\ MountIdle
  /\ PlanIdle
  /\ DiaryIdle
  /\ ShoppingIdle

\* fetchInventory: getDocs resolved.
FetchInventoryOk ==
  /\ invFetch = "pending"
  /\ inventory' = storeInventory
  /\ invFetch' = "done"
  /\ UNCHANGED outsideRecipes
  /\ UNCHANGED <<rvShoppingLists, recipe, currentList, allInStock, rowInStock, stockPc, addPc, addList, missing,
                 addK, alerted, listFetch, storeRecipesVars>>

\* fetchInventory: getDocs rejected; the catch logs.
FetchInventoryFail ==
  /\ invFetch = "pending"
  /\ invFetch' = "failed"
  /\ UNCHANGED outsideRecipes
  /\ UNCHANGED <<rvShoppingLists, recipe, inventory, currentList, allInStock, rowInStock, stockPc, addPc, addList,
                 missing, addK, alerted, listFetch, storeRecipesVars>>

\* fetchShoppingLists: getDocs resolved; lists[0] becomes the current list.
FetchShoppingListsOk ==
  /\ listFetch = "pending"
  /\ currentList' = IF Len(storeLists) > 0 THEN ListAll(storeLists)[1].id
                                            ELSE currentList
  /\ rvShoppingLists' = ListAll(storeLists)
  /\ listFetch' = "done"
  /\ UNCHANGED outsideRecipes
  /\ UNCHANGED <<recipe, inventory, allInStock, rowInStock, stockPc, addPc, addList, missing,
                 addK, alerted, invFetch, storeRecipesVars>>

\* A catch that also resets the in-memory inventory.
FetchShoppingListsFailResetting ==
  /\ listFetch = "pending"
  /\ listFetch' = "failed"
  /\ inventory' = <<>>
  /\ UNCHANGED outsideRecipes
  /\ UNCHANGED <<rvShoppingLists, recipe, currentList, allInStock, rowInStock, stockPc, addPc,
                 addList, missing, addK, alerted, invFetch, storeRecipesVars>>

\* fetchShoppingLists: getDocs rejected; the catch logs.
FetchShoppingListsFail ==
  /\ listFetch = "pending"
  /\ listFetch' = "failed"
  /\ UNCHANGED outsideRecipes
  /\ UNCHANGED <<rvShoppingLists, recipe, inventory, currentList, allInStock, rowInStock, stockPc, addPc, addList,
                 missing, addK, alerted, invFetch, storeRecipesVars>>

\* handleAddMissingIngredients(recipe), up to its first await.  Without a
\* current list it returns; recipe.ingredients undefined throws a TypeError
\* before the try; with nothing missing the loop is empty and it alerts.
StartAddMissing ==
  /\ addPc = "idle"
  /\ IF currentList = NoList
       THEN addPc' = "returned" /\ UNCHANGED <<addList, missing, alerted>>
       ELSE IF "ingredients" \notin DOMAIN recipe
         THEN addPc' = "threw" /\ UNCHANGED <<addList, missing, alerted>>
         ELSE LET m == MissingIngredients(recipe, inventory)
              IN  /\ missing' = m
                  /\ addList' = currentList
                  /\ addPc' = IF m = <<>> THEN "done" ELSE "writing"
                  /\ alerted' = (m = <<>>)
  /\ UNCHANGED outsideRecipes
  /\ UNCHANGED <<rvShoppingLists, recipe, inventory, currentList, allInStock, rowInStock, stockPc, addK,
                 invFetch, listFetch, storeRecipesVars>>

\* One iteration's addDoc resolved: the store holds the new item under a
\* fresh id.  After the last iteration the handler alerts.
AddMissingDocOk ==
  /\ addPc = "writing"
  /\ Storable(missing[addK + 1])
  /\ \E newId \in Ids \ IdsOf(storeItems[addList]) :
        storeItems' = [storeItems EXCEPT ![addList] =
                         Append(@, MissingItem(missing[addK + 1]) @@ [id |-> newId])]
  /\ addK' = addK + 1
  /\ addPc' = IF addK + 1 = Len(missing) THEN "done" ELSE "writing"
  /\ alerted' = (addK + 1 = Len(missing))
  /\ UNCHANGED outsideRecipes
  /\ UNCHANGED <<rvShoppingLists, recipe, inventory, currentList, allInStock, rowInStock, stockPc, addList,
                 missing, invFetch, listFetch, storeInventory, storeLists>>

\* A failure handler that compensates by restoring the sub-collection.
AddMissingDocFailRollback ==
  /\ addPc = "writing"
  /\ addPc' = "failed"
  /\ storeItems' = InitialItems(storeLists)
  /\ UNCHANGED outsideRecipes
  /\ UNCHANGED <<rvShoppingLists, recipe, inventory, currentList, allInStock, rowInStock, stockPc, addList,
                 missing, addK, alerted, invFetch, listFetch, storeInventory,
                 storeLists>>

\* One iteration's addDoc rejected: the catch logs and the handler ends.
AddMissingDocFail ==
  /\ addPc = "writing"
  /\ addPc' = "failed"
  /\ UNCHANGED outsideRecipes
  /\ UNCHANGED <<rvShoppingLists, recipe, inventory, currentList, allInStock, rowInStock, stockPc, addList,
                 missing, addK, alerted, invFetch, listFetch, storeRecipesVars>>

NextRecipes ==
  \/ FetchInventoryOk
  \/ FetchInventoryFail
  \/ FetchShoppingListsOk
  \/ FetchShoppingListsFail
  \/ StartAddMissing
  \/ AddMissingDocOk
  \/ AddMissingDocFail

SpecRecipes == InitRecipes /\ [][NextRecipes]_vars

------------------------------------------------------------------------------
(* C7, C8 *)

\* A document without its store-assigned id.
WithoutId(d) == [f \in DOMAIN d \ {"id"} |-> d[f]]

\* The sub-collection of list l holds what it held when the view opened,
\* followed by one item per ingredient of missing[1..n], in that order.
HoldsFirstMissing(l, n) ==
  LET before == InitialItems(storeLists)[l]
      now == storeItems[l]
  IN  /\ Len(now) = Len(before) + n
      /\ SubSeq(now, 1, Len(before)) = before
      /\ \A k \in 1..n :
            /\ WithoutId(now[Len(before) + k]) =
                 [name |-> missing[k].name, category |-> "Ingredients",
                  completed |-> FALSE, products |-> <<>>]
            /\ now[Len(before) + k].id \notin
                 { now[j].id : j \in 1..(Len(before) + k - 1) }

OtherListsUntouched(l) ==
  \A o \in DOMAIN storeItems : o # l => storeItems[o] = InitialItems(storeLists)[o]

\* C7: with a current list and every write succeeding, the workflow creates
\* exactly one new item per missing ingredient, in recipe order, with the
\* ingredient's name, category "Ingredients", completed = false and no
\* products, in the current list's sub-collection; the missing ingredients
\* are those of the recipe that the in-memory inventory does not match, so
\* no item is created for an ingredient that is in stock.
C7_AddMissing ==
  /\ [](addPc = "done" =>
         /\ HoldsFirstMissing(addList, Len(missing))
         /\ OtherListsUntouched(addList))
  /\ [][(addPc = "idle" /\ addPc' \in {"writing", "done"}) =>
          /\ addList' = currentList
          /\ \E pick \in SUBSET (1..Len(recipe.ingredients)) :
                /\ pick = { k \in 1..Len(recipe.ingredients) :
                              ~CheckIngredientInStock(NameOf(recipe.ingredients[k]),
                                                      inventory) }
                /\ Len(missing') = Cardinality(pick)
                /\ \A k \in 1..Len(missing') :
                      \E i \in pick :
                        /\ missing'[k] = recipe.ingredients[i]
                        /\ Cardinality({ j \in pick : j < i }) = k - 1]_vars

\* The workflow finished for a recipe with one ingredient in stock and one
\* missing, and the missing one was written.
C7_Witness ==
  /\ addPc = "done"
  /\ Len(recipe.ingredients) = 2
  /\ Len(missing) = 1
  /\ inventory # <<>>
  /\ Len(storeItems[addList]) = Len(InitialItems(storeLists)[addList]) + 1

\* C8: when the k-th write fails, the items of writes 1..k-1 stay in the
\* sub-collection, no later write is made, and the handler ends without
\* the success alert.
C8_NoRollback ==
  /\ [](addPc = "failed" =>
         /\ addK < Len(missing)
         /\ HoldsFirstMissing(addList, addK)
         /\ OtherListsUntouched(addList)
         /\ ~alerted)
  /\ [][addPc = "failed" =>
          (addPc' = "failed" /\ storeItems' = storeItems /\ alerted' = alerted)]_vars

\* The second write failed after the first had created its item.
C8_Witness ==
  /\ addPc = "failed"
  /\ addK = 1
  /\ Len(missing) = 2
  /\ Len(storeItems[addList]) = Len(InitialItems(storeLists)[addList]) + 1

------------------------------------------------------------------------------
(* C15 *)

\* C15: when handleAddMissingIngredients computes its missingIngredients, the
\* list holds exactly the ingredients of the recipe that
\* checkIngredientInStock rejects over the inventory in memory: as many
\* elements as there are rejected positions, the j-th element being the
\* ingredient at the j-th rejected position (original order, duplicates kept).
C15_MissingIsSubsequence ==
  [][(addPc = "idle" /\ addPc' \in {"writing", "done"}) =>
       LET out == { k \in 1..Len(recipe.ingredients) :
                      ~CheckIngredientInStock(NameOf(recipe.ingredients[k]), inventory) }
       IN  /\ Len(missing') = Cardinality(out)
           /\ \A k \in out :
                missing'[Cardinality({ i \in out : i <= k })] = recipe.ingredients[k]]_vars

\* Over an inventory holding "a", the handler has computed the missing
\* ingredients of a recipe listing "b" twice: both are kept.
C15_Witness ==
  /\ addPc = "writing"
  /\ addK = 0
  /\ \E i \in 1..Len(inventory) : "name" \in DOMAIN inventory[i]
  /\ recipe.ingredients = <<[name |-> <<98>>], [name |-> <<98>>]>>
  /\ missing = recipe.ingredients

------------------------------------------------------------------------------
(* The Inventory view: expiration status *)

\* 1000 * 60 * 60 * 24
MsPerDay == 1000 * 60 * 60 * 24

\* new Date("yyyy-MM-dd").getTime(): a date-only string is UTC midnight.
DateMs(day) == day * MsPerDay

\* Inventory.isExpiringSoon
IsExpiringSoon(date, now) ==
  IF date = NoDate THEN FALSE
  ELSE LET daysUntilExpiration == (DateMs(date) - now) \div MsPerDay
       IN  daysUntilExpiration <= 7 /\ daysUntilExpiration >= 0

\* Inventory.isExpired
IsExpired(date, now) ==
  IF date = NoDate THEN FALSE
  ELSE DateMs(date) < now

\* The colour of the expiration cell: expired, else expiring soon, else none.
ExpirationStatus(date, now) ==
  IF IsExpired(date, now) THEN "expired"
  ELSE IF IsExpiringSoon(date, now) THEN "expiringSoon"
  ELSE "none"

\* Instants within a day: midnight, just after, noon, just before midnight.
TimesOfDay == { 0, 1, MsPerDay \div 2, MsPerDay - 1 }

\* Local-time offsets from UTC: New York (winter), UTC, Sydney.
TzOffsets == { -5 * 3600000, 0, 10 * 3600000 }

InitExpiry ==
  /\ expirationDate \in {NoDate} \cup 0..MaxDay
  /\ nowMs \in { DateMs(d) + t : d \in 1..MaxDay, t \in TimesOfDay }
  /\ tzOffsetMs \in TzOffsets
  /\ expStatus = "none"
  /\ expPc = "input"
  /\ InventoryIdle
  /\ MountIdle
  /\ RenderIdle
  /\ recipe = [id |-> 1]
  /\ inventory = <<>>
  /\ allInStock = FALSE
  /\ rowInStock = <<>>
  /\ stockPc = "input"
  /\ RecipesIdle
  /\ ShoppingIdle
  /\ PlanIdle
  /\ DiaryIdle

\* The table row evaluates isExpired / isExpiringSoon for its colour.
RenderExpiration ==
  /\ expPc = "input"
  /\ expStatus' = ExpirationStatus(expirationDate, nowMs)
  /\ expPc' = "applied"
  /\ UNCHANGED <<expirationDate, nowMs, tzOffsetMs>>
  /\ UNCHANGED <<recipesVars, mountVars, renderVars, storeRecipesVars, inventoryVars, shoppingVars,
                 planVars, diaryVars>>

NextExpiry == RenderExpiration

SpecExpiry == InitExpiry /\ [][NextExpiry]_vars

\* The user's calendar day at the current instant.
Today == (nowMs + tzOffsetMs) \div MsPerDay

\* C4: expirationStatus is none without a date, expired when the date is
\* before today, expiringSoon when the date is today .. today+7, and none
\* otherwise (today is expiringSoon, today+8 is none), at every time of day.
C4_ExpirationStatus ==
  expPc = "applied" =>
    expStatus =
      IF expirationDate = NoDate THEN "none"
      ELSE IF expirationDate < Today THEN "expired"
      ELSE IF expirationDate - Today <= 7 THEN "expiringSoon"
      ELSE "none"

------------------------------------------------------------------------------
(* The Shopping view (list-container layout) *)

\* What the actions of the Shopping view leave alone.
outsideShopping == <<recipesVars, mountVars, renderVars, storeInventory, expiryVars, inventoryVars, planVars, diaryVars>>

\* Item names the forms submit: "a" (apples), "B" (Bananas).
ItemNames == { <<97>>, <<66>> }

\* The list name the prompt returns: "L".
ListName == <<76>>

Apples == [id |-> 2, name |-> <<97>>, category |-> "Produce", completed |-> FALSE,
           products |-> <<>>]
Bananas == [id |-> 1, name |-> <<66>>, category |-> "Produce", completed |-> FALSE,
            products |-> <<>>]

\* The stored lists when the view opens: none, one list holding Bananas and
\* apples, or a list holding Bananas and an empty second list.
InitialShoppingStores ==
  { [lists |-> <<>>, items |-> <<>>],
    [lists |-> <<[id |-> 1, name |-> ListName]>>,
     items |-> (1 :> <<Bananas, Apples>>)],
    [lists |-> <<[id |-> 1, name |-> ListName], [id |-> 2, name |-> ListName]>>,
     items |-> (1 :> <<Bananas>>) @@ (2 :> <<>>)] }

\* ShoppingList(): the useState initial values, and the effect's fetch started.
Mounted ==
  /\ shoppingLists = <<>>
  /\ slCurrentList = NoList
  /\ items = <<>>
  /\ selectedItems = <<>>
  /\ slFetch = "pending"
  /\ itemFetches = {}
  /\ clickedList = NoList
  /\ ops = {}

InitShopping ==
  /\ \E st \in InitialShoppingStores :
        storeLists = st.lists /\ storeItems = st.items
  /\ Mounted
  /\ toggledBack = FALSE
  /\ recipe = [id |-> 1]
  /\ inventory = <<>>
  /\ allInStock = FALSE
  /\ rowInStock = <<>>
  /\ stockPc = "input"
  /\ currentList = NoList
  /\ addPc = "idle"
  /\ addList = NoList
  /\ missing = <<>>
  /\ addK = 0
  /\ alerted = FALSE
  /\ invFetch = "done"
  /\ listFetch = "done"
  /\ rvShoppingLists = <<>>
  /\ storeInventory = <<>>
  /\ ExpiryIdle
  /\ RenderIdle
  /\ InventoryIdle
  /\ MountIdle
  /\ PlanIdle
  /\ DiaryIdle

\* No fetch and no handler of the view is awaiting the store.
Quiescent == slFetch # "pending" /\ itemFetches = {} /\ ops = {}

\* Ids of documents the view or one of its pending handlers knows.
KnownIds ==
  IdsOf(items) \cup UNION { IdsOf(o.items) : o \in ops }
    \cup { o.item.id : o \in { q \in ops : "id" \in DOMAIN q.item } }

\* Ids of the item documents stored in all lists.
StoredItemIds == UNION { IdsOf(storeItems[l]) : l \in DOMAIN storeItems }

\* The id a new item document gets: one that no stored item document, no
\* item in memory and no pending handler carries.
FreshItemIds ==
  LET free == (1..MaxItemIds) \ (StoredItemIds \cup KnownIds)
  IN  { i \in free : \A j \in free : i <= j }

\* The id a new list document gets: one that no stored list carries.
FreshListIds ==
  LET free == Ids \ IdsOf(storeLists)
  IN  { i \in free : \A j \in free : i <= j }

\* The view is left and opened again: its state starts over.
Remount ==
  /\ Quiescent
  /\ shoppingLists' = <<>>
  /\ slCurrentList' = NoList
  /\ items' = <<>>
  /\ selectedItems' = <<>>
  /\ slFetch' = "pending"
  /\ itemFetches' = {}
  /\ clickedList' = NoList
  /\ ops' = {}
  /\ UNCHANGED <<storeLists, storeItems, toggledBack,
                   outsideShopping>>

\* fetchShoppingLists: getDocs resolved; lists[0] becomes the current list
\* and its items are fetched.
SlFetchListsOk ==
  /\ slFetch = "pending"
  /\ slFetch' = "done"
  /\ shoppingLists' = ListAll(storeLists)
  /\ IF Len(storeLists) > 0
       THEN /\ slCurrentList' = ListAll(storeLists)[1].id
            /\ itemFetches' = itemFetches \cup { ListAll(storeLists)[1].id }
       ELSE UNCHANGED <<slCurrentList, itemFetches>>
  /\ UNCHANGED <<items, selectedItems, clickedList, ops, storeLists, storeItems,
                 toggledBack,
                   outsideShopping>>

\* fetchShoppingLists: getDocs rejected; the catch logs.
SlFetchListsFail ==
  /\ slFetch = "pending"
  /\ slFetch' = "failed"
  /\ UNCHANGED <<shoppingLists, slCurrentList, items, selectedItems, itemFetches,
                 clickedList, ops, storeLists, storeItems, toggledBack,
                   outsideShopping>>

\* fetchItems(listId): getDocs resolved; the items are sorted and set.
FetchItemsOk ==
  \E l \in itemFetches :
    /\ items' = SortByName(ListAll(storeItems[l]))
    /\ itemFetches' = itemFetches \ {l}
    /\ UNCHANGED <<shoppingLists, slCurrentList, selectedItems, slFetch, clickedList,
                   ops, storeLists, storeItems, toggledBack,
                   outsideShopping>>

\* fetchItems(listId): getDocs rejected; the catch logs.
FetchItemsFail ==
  \E l \in itemFetches :
    /\ itemFetches' = itemFetches \ {l}
    /\ UNCHANGED <<shoppingLists, slCurrentList, items, selectedItems, slFetch,
                   clickedList, ops, storeLists, storeItems, toggledBack,
                   outsideShopping>>

\* The dropdown entry's onClick: setCurrentList(list), close the dropdown,
\* then fetchItems(list.id).  fetchItems is a const of the effect callback
\* and is not in scope here: the call raises a ReferenceError, after the
\* state updates were queued.  No fetch starts.
SelectList ==
  \E k \in 1..Len(shoppingLists) :
    /\ slCurrentList' = shoppingLists[k].id
    /\ clickedList' = shoppingLists[k].id
    /\ UNCHANGED <<shoppingLists, items, selectedItems, slFetch, itemFetches, ops,
                   storeLists, storeItems, toggledBack,
                   outsideShopping>>

\* The pending calls of one handler.
OpsOf(kind) == { o \in ops : o.kind = kind }

\* Item documents that pending handleAddItem calls will create.
PendingAdds == Cardinality(OpsOf("addItem"))

\* handleAddList(listName), up to its await.
StartAddList ==
  /\ Cardinality(ops) < MaxOps
  /\ Len(storeLists) + Cardinality(OpsOf("addList")) < MaxLists
  /\ ops' = ops \cup { [kind |-> "addList", item |-> [name |-> ListName],
                         lists |-> shoppingLists, items |-> <<>>] }
  /\ UNCHANGED <<shoppingLists, slCurrentList, items, selectedItems, slFetch,
                 itemFetches, clickedList, storeLists, storeItems, toggledBack,
                   outsideShopping>>

\* handleAddList: addDoc resolved.  The new list is appended and becomes the
\* current list; the items state is not touched.
AddListOk ==
  \E o \in OpsOf("addList") : \E newId \in FreshListIds :
    /\ storeLists' = InsertById(storeLists, [id |-> newId, name |-> o.item.name])
    /\ storeItems' = storeItems @@ (newId :> <<>>)
    /\ shoppingLists' = Append(o.lists, [id |-> newId, name |-> o.item.name])
    /\ slCurrentList' = newId
    /\ ops' = ops \ {o}
    /\ UNCHANGED <<items, selectedItems, slFetch, itemFetches, clickedList,
                   toggledBack,
                   outsideShopping>>

\* handleAddItem(newItem), up to its await; without a current list it returns.
StartAddItem ==
  \E n \in ItemNames :
    /\ slCurrentList # NoList
    /\ Cardinality(ops) < MaxOps
    /\ Cardinality(StoredItemIds) + PendingAdds < MaxItems
    /\ ops' = ops \cup { [kind |-> "addItem",
                           item |-> [name |-> n, category |-> "Produce",
                                     completed |-> FALSE, products |-> <<>>],
                           list |-> slCurrentList, items |-> items] }
    /\ UNCHANGED <<shoppingLists, slCurrentList, items, selectedItems, slFetch,
                   itemFetches, clickedList, storeLists, storeItems, toggledBack,
                   outsideShopping>>

\* handleAddItem: addDoc resolved; the item is appended and the items sorted.
AddItemOk ==
  \E o \in OpsOf("addItem") : \E newId \in FreshItemIds :
    /\ storeItems' = [storeItems EXCEPT ![o.list] =
                        InsertById(@, o.item @@ [id |-> newId])]
    /\ items' = SortByName(Append(o.items, o.item @@ [id |-> newId]))
    /\ ops' = ops \ {o}
    /\ UNCHANGED <<shoppingLists, slCurrentList, selectedItems, slFetch, itemFetches,
                   clickedList, storeLists, toggledBack,
                   outsideShopping>>

\* handleSaveEdit(editedItem), up to its await: the edit form of a shown item
\* is submitted with a name.
StartSaveEdit ==
  \E k \in 1..Len(items) : \E n \in ItemNames :
    /\ slCurrentList # NoList
    /\ Cardinality(ops) < MaxOps
    /\ ops' = ops \cup { [kind |-> "saveEdit", item |-> [items[k] EXCEPT !.name = n],
                           list |-> slCurrentList, items |-> items] }
    /\ UNCHANGED <<shoppingLists, slCurrentList, items, selectedItems, slFetch,
                   itemFetches, clickedList, storeLists, storeItems, toggledBack,
                   outsideShopping>>

\* docs with the fields of the document of id `id` overwritten by `fields`.
Updated(docs, id, fields) ==
  [k \in 1..Len(docs) |-> IF docs[k].id = id THEN fields @@ docs[k] ELSE docs[k]]

\* The array after items.map(i => i.id === item.id ? item : i).
Replaced(its, item) ==
  [k \in 1..Len(its) |-> IF its[k].id = item.id THEN item ELSE its[k]]

\* handleSaveEdit: updateDoc resolved (the document exists in the addressed
\* sub-collection); the item is replaced in memory and the items sorted.
SaveEditOk ==
  \E o \in OpsOf("saveEdit") :
    /\ o.item.id \in IdsOf(storeItems[o.list])
    /\ storeItems' = [storeItems EXCEPT ![o.list] = Updated(@, o.item.id, o.item)]
    /\ items' = SortByName(Replaced(o.items, o.item))
    /\ ops' = ops \ {o}
    /\ UNCHANGED <<shoppingLists, slCurrentList, selectedItems, slFetch, itemFetches,
                   clickedList, storeLists, toggledBack,
                   outsideShopping>>

\* toggleComplete(item), up to its await.
StartToggle ==
  \E k \in 1..Len(items) :
    /\ slCurrentList # NoList
    /\ Cardinality(ops) < MaxOps
    /\ ops' = ops \cup { [kind |-> "toggle", item |-> items[k],
                           list |-> slCurrentList, items |-> items] }
    /\ UNCHANGED <<shoppingLists, slCurrentList, items, selectedItems, slFetch,
                   itemFetches, clickedList, storeLists, storeItems, toggledBack,
                   outsideShopping>>

\* A toggle that marks the item completed whatever it showed.
ToggleOkCompleting ==
  \E o \in OpsOf("toggle") :
    /\ o.item.id \in IdsOf(storeItems[o.list])
    /\ storeItems' = [storeItems EXCEPT ![o.list] =
                        Updated(@, o.item.id, [completed |-> TRUE])]
    /\ items' = SortByName(Replaced(o.items, [o.item EXCEPT !.completed = TRUE]))
    /\ ops' = ops \ {o}
    /\ toggledBack' = (toggledBack \/ o.item.completed)
    /\ UNCHANGED <<shoppingLists, slCurrentList, selectedItems, slFetch, itemFetches,
                   clickedList, storeLists, outsideShopping>>

\* toggleComplete: updateDoc({completed}) resolved; the item is replaced by
\* its copy with completed flipped and the items sorted.
ToggleOk ==
  \E o \in OpsOf("toggle") :
    /\ o.item.id \in IdsOf(storeItems[o.list])
    /\ storeItems' = [storeItems EXCEPT ![o.list] =
                        Updated(@, o.item.id, [completed |-> ~o.item.completed])]
    /\ items' = SortByName(Replaced(o.items,
                                    [o.item EXCEPT !.completed = ~o.item.completed]))
    /\ ops' = ops \ {o}
    /\ toggledBack' = (toggledBack \/ o.item.completed)
    /\ UNCHANGED <<shoppingLists, slCurrentList, selectedItems, slFetch, itemFetches,
                   clickedList, storeLists, outsideShopping>>

\* handleSelectItem(itemId): the id is added to or removed from the selection.
SelectItem ==
  \E k \in 1..Len(items) :
    /\ selectedItems' =
         IF \E j \in 1..Len(selectedItems) : selectedItems[j] = items[k].id
           THEN SelectSeq(selectedItems, LAMBDA id : id # items[k].id)
           ELSE Append(selectedItems, items[k].id)
    /\ UNCHANGED <<shoppingLists, slCurrentList, items, slFetch, itemFetches,
                   clickedList, ops, storeLists, storeItems, toggledBack,
                   outsideShopping>>

\* handleDeleteItem(itemId), up to its await.
StartDeleteItem ==
  \E k \in 1..Len(items) :
    /\ slCurrentList # NoList
    /\ Cardinality(ops) < MaxOps
    /\ ops' = ops \cup { [kind |-> "deleteItem", item |-> [id |-> items[k].id],
                           list |-> slCurrentList, items |-> items] }
    /\ UNCHANGED <<shoppingLists, slCurrentList, items, selectedItems, slFetch,
                   itemFetches, clickedList, storeLists, storeItems, toggledBack,
                   outsideShopping>>

\* docs without the document of id `id` (deleting a missing document succeeds).
Without(docs, id) == SelectSeq(docs, LAMBDA d : d.id # id)

\* handleDeleteItem: deleteDoc resolved; the item is filtered out and the
\* items sorted.
DeleteItemOk ==
  \E o \in OpsOf("deleteItem") :
    /\ storeItems' = [storeItems EXCEPT ![o.list] = Without(@, o.item.id)]
    /\ items' = SortByName(Without(o.items, o.item.id))
    /\ ops' = ops \ {o}
    /\ UNCHANGED <<shoppingLists, slCurrentList, selectedItems, slFetch, itemFetches,
                   clickedList, storeLists, toggledBack,
                   outsideShopping>>

\* handleDeleteSelected(), up to its first await; without a current list or
\* a selection it returns.
StartDeleteSelected ==
  /\ slCurrentList # NoList
  /\ selectedItems # <<>>
  /\ Cardinality(ops) < MaxOps
  /\ ops' = ops \cup { [kind |-> "deleteSelected", item |-> [done |-> 0],
                         sel |-> selectedItems, list |-> slCurrentList,
                         items |-> items] }
  /\ UNCHANGED <<shoppingLists, slCurrentList, items, selectedItems, slFetch,
                 itemFetches, clickedList, storeLists, storeItems, toggledBack,
                   outsideShopping>>

\* handleDeleteSelected: one iteration's deleteDoc resolved.  After the last
\* one the selected items are filtered out, the items sorted and the
\* selection cleared.
DeleteSelectedOk ==
  \E o \in OpsOf("deleteSelected") :
    /\ storeItems' = [storeItems EXCEPT ![o.list] = Without(@, o.sel[o.item.done + 1])]
    /\ IF o.item.done + 1 = Len(o.sel)
         THEN /\ items' = SortByName(SelectSeq(o.items,
                             LAMBDA i : \A j \in 1..Len(o.sel) : o.sel[j] # i.id))
              /\ selectedItems' = <<>>
              /\ ops' = ops \ {o}
         ELSE /\ ops' = (ops \ {o}) \cup { [o EXCEPT !.item.done = @ + 1] }
              /\ UNCHANGED <<items, selectedItems>>
    /\ UNCHANGED <<shoppingLists, slCurrentList, slFetch, itemFetches, clickedList,
                   storeLists, toggledBack,
                   outsideShopping>>

\* A catch that also empties the items in memory.
HandlerFailClearing ==
  \E o \in ops :
    /\ ops' = ops \ {o}
    /\ items' = <<>>
    /\ UNCHANGED <<shoppingLists, slCurrentList, selectedItems, slFetch,
                   itemFetches, clickedList, storeLists, storeItems, toggledBack,
                   outsideShopping>>

\* Any handler's store call rejected: its catch logs and the handler ends.
HandlerFail ==
  \E o \in ops :
    /\ ops' = ops \ {o}
    /\ UNCHANGED <<shoppingLists, slCurrentList, items, selectedItems, slFetch,
                   itemFetches, clickedList, storeLists, storeItems, toggledBack,
                   outsideShopping>>

NextShopping ==
  \/ Remount
  \/ SlFetchListsOk
  \/ SlFetchListsFail
  \/ FetchItemsOk
  \/ FetchItemsFail
  \/ SelectList
  \/ StartAddList
  \/ AddListOk
  \/ StartAddItem
  \/ AddItemOk
  \/ StartSaveEdit
  \/ SaveEditOk
  \/ StartToggle
  \/ ToggleOk
  \/ SelectItem
  \/ StartDeleteItem
  \/ DeleteItemOk
  \/ StartDeleteSelected
  \/ DeleteSelectedOk
  \/ HandlerFail

SpecShopping == InitShopping /\ [][NextShopping]_vars

\* C3: selecting a list in the dropdown makes it the current list and starts
\* the reload of its items sub-collection, so that the items in memory become
\* the items of that list.
C3_SwitchReloads ==
  [][SelectList => /\ slCurrentList' = clickedList'
                   /\ clickedList' \in itemFetches']_vars

\* a and b are in alphabetical order: letters compare without regard to case.
Alphabetical(a, b) == LexCompare(ToLowerCase(a), ToLowerCase(b)) <= 0

\* The toggle of "Bananas" shown after "a" resolves.
TogglesBananas(o) ==
  /\ o \in OpsOf("toggle")
  /\ o.item.id \in IdsOf(storeItems[o.list])
  /\ o.item.name = <<66>> /\ ~o.item.completed
  /\ Len(o.items) = 2
  /\ o.items[1].name = <<97>> /\ ~o.items[1].completed
  /\ o.items[2] = o.item
  /\ ops' = ops \ {o}
  /\ items' # items

\* C9: the items in memory are in alphabetical order of their names in every
\* state; toggling "Bananas" in ["a", "Bananas"] leaves the order with only
\* Bananas completed.
C9_ItemsSorted ==
  /\ [](\A i \in 1..Len(items) : \A j \in i..Len(items) :
          Alphabetical(items[i].name, items[j].name))
  /\ [][(\E o \in ops : TogglesBananas(o)) =>
          /\ Len(items') = 2
          /\ items'[1].name = <<97>> /\ ~items'[1].completed
          /\ items'[2].name = <<66>> /\ items'[2].completed]_vars

\* "a" pending before "Bananas" completed, after a toggle.
C9_Witness ==
  /\ Len(items) = 2
  /\ items[1].name = <<97>> /\ ~items[1].completed
  /\ items[2].name = <<66>> /\ items[2].completed

------------------------------------------------------------------------------
(* C11 *)

\* The store call the pending handler call o awaits changes the store when
\* it succeeds: an addDoc always does; an updateDoc or deleteDoc does when
\* the addressed document is stored and the write changes or removes it.
WritesWhenResolved(o) ==
  \/ o.kind \in {"addList", "addItem"}
  \/ /\ o.kind = "toggle"
     /\ o.item.id \in IdsOf(storeItems[o.list])
     /\ Updated(storeItems[o.list], o.item.id, [completed |-> ~o.item.completed])
          # storeItems[o.list]
  \/ /\ o.kind = "saveEdit"
     /\ o.item.id \in IdsOf(storeItems[o.list])
     /\ Updated(storeItems[o.list], o.item.id, o.item) # storeItems[o.list]
  \/ /\ o.kind = "deleteItem"
     /\ o.item.id \in IdsOf(storeItems[o.list])
  \/ /\ o.kind = "deleteSelected"
     /\ o.sel[o.item.done + 1] \in IdsOf(storeItems[o.list])

\* C11: a step in which a pending create, update, delete or toggle call of
\* the Shopping view ends while the store write it awaited did not happen
\* (the call failed) changes nothing in memory: the items, the lists, the
\* current list and the selection are as they were; and invoking a handler
\* changes none of them before its store call resolves.
C11_FailureLeavesState ==
  /\ [][\A o \in ops :
          (/\ ops' = ops \ {o}
           /\ WritesWhenResolved(o)
           /\ storeItems' = storeItems
           /\ storeLists' = storeLists)
          => /\ items' = items
             /\ shoppingLists' = shoppingLists
             /\ slCurrentList' = slCurrentList
             /\ selectedItems' = selectedItems]_vars
  /\ [][(\E o \in ops' : o \notin ops /\ ops' = ops \cup {o})
          => /\ items' = items
             /\ shoppingLists' = shoppingLists
             /\ slCurrentList' = slCurrentList
             /\ selectedItems' = selectedItems
             /\ storeItems' = storeItems
             /\ storeLists' = storeLists]_vars

\* The second deleteDoc of a selection of two was rejected: the first item is
\* gone from the store, and both are still in memory and selected.
C11_Witness ==
  /\ ops = {}
  /\ Len(selectedItems) = 2
  /\ \A j \in 1..2 : selectedItems[j] \in IdsOf(items)
  /\ selectedItems[1] \notin StoredItemIds
  /\ selectedItems[2] \in StoredItemIds

------------------------------------------------------------------------------
(* C12 *)

\* C12: a step in which a toggleComplete call succeeds writes only the
\* completed field of the toggled item's document (every other field, every
\* other document and every other list is unchanged in the store), and in
\* memory replaces only that item: the items are the items shown before the
\* step, with the toggled item's completed flipped and nothing else changed.
C12_ToggleFrame ==
  [][\A o \in OpsOf("toggle") :
       (ops' = ops \ {o} /\ storeItems' # storeItems)
       => /\ storeLists' = storeLists
          /\ storeItems' =
               [storeItems EXCEPT ![o.list] =
                  [k \in 1..Len(@) |->
                     IF @[k].id = o.item.id
                       THEN [@[k] EXCEPT !.completed = ~o.item.completed]
                       ELSE @[k]]]
          /\ items' =
               [k \in 1..Len(items) |->
                  IF items[k].id = o.item.id
                    THEN [items[k] EXCEPT !.completed = ~items[k].completed]
                    ELSE items[k]]]_vars

------------------------------------------------------------------------------
(* C13 *)

\* The document of id `id` among docs.
DocOf(docs, id) == CHOOSE d \in { docs[k] : k \in 1..Len(docs) } : d.id = id

------------------------------------------------------------------------------
(* The recipe list, the Menu view and the Calendar view *)

\* What the actions of these three views leave alone.
outsidePlan == <<recipesVars, mountVars, renderVars, storeRecipesVars, expiryVars, inventoryVars, shoppingVars, diaryVars>>

\* The longest prefix of s made of decimal digits.
RECURSIVE LeadingDigits(_)
LeadingDigits(s) ==
  IF s = <<>> \/ Head(s) \notin 48..57 THEN <<>>
  ELSE <<Head(s)>> \o LeadingDigits(Tail(s))

\* The number a sequence of decimal digits denotes.
RECURSIVE DigitsValue(_)
DigitsValue(d) ==
  IF d = <<>> THEN 0
  ELSE 10 * DigitsValue(SubSeq(d, 1, Len(d) - 1)) + (d[Len(d)] - 48)

\* StringToNumber's StrWhiteSpace prefix removed (blanks).
RECURSIVE TrimStart(_)
TrimStart(s) ==
  IF s # <<>> /\ Head(s) = 32 THEN TrimStart(Tail(s)) ELSE s

\* Number(s) || 0: the value of a text that is a number as a whole.
ParseWholeOr0(s) ==
  IF LeadingDigits(s) = s THEN DigitsValue(s) ELSE 0

\* parseInt(s) || 0 on a text without a 0x prefix: leading blanks are
\* skipped, a sign is read, then the decimal digits that follow; with no
\* digit there the result is NaN, and NaN || 0 is 0.
ParseIntOr0(s) ==
  LET t == TrimStart(s)
      signed == t # <<>> /\ Head(t) \in {43, 45}
      v == DigitsValue(LeadingDigits(IF signed THEN Tail(t) ELSE t))
  IN  IF signed /\ Head(t) = 45 THEN 0 - v ELSE v

\* recipe.prepTime and recipe.cookTime, undefined when the document has none.
PrepTimeOf(r) == IF "prepTime" \in DOMAIN r THEN r.prepTime ELSE Undefined
CookTimeOf(r) == IF "cookTime" \in DOMAIN r THEN r.cookTime ELSE Undefined

\* rs.reduce((total, recipe) => total + (parseInt(recipe.prepTime) || 0), 0)
RECURSIVE PrepSum(_)
PrepSum(rs) ==
  IF rs = <<>> THEN 0 ELSE PrepSum(SubSeq(rs, 1, Len(rs) - 1)) + ParseIntOr0(PrepTimeOf(rs[Len(rs)]))

\* rs.reduce((total, recipe) => total + (parseInt(recipe.cookTime) || 0), 0)
RECURSIVE CookSum(_)
CookSum(rs) ==
  IF rs = <<>> THEN 0 ELSE CookSum(SubSeq(rs, 1, Len(rs) - 1)) + ParseIntOr0(CookTimeOf(rs[Len(rs)]))

\* MenuDetailsModal: totalPrepTime and totalCookTime of a menu.
TotalPrepTime(menu) == PrepSum(menu.recipes)
TotalCookTime(menu) == CookSum(menu.recipes)

\* The menu card's total:
\* rs.reduce((acc, recipe) => acc + prep + cook, 0) with prep and cook
\* parseInt(...) || 0 of the recipe's two durations.
RECURSIVE CardSum(_)
CardSum(rs) ==
  IF rs = <<>> THEN 0
  ELSE CardSum(SubSeq(rs, 1, Len(rs) - 1)) + ParseIntOr0(PrepTimeOf(rs[Len(rs)]))
                                           + ParseIntOr0(CookTimeOf(rs[Len(rs)]))

\* The stored recipes when the views open: R1 "a" (prep "10", cook "5") and
\* R2 "b" (prep "20", cook "10").
R1 == [id |-> 1, name |-> <<97>>, prepTime |-> <<49, 48>>, cookTime |-> <<53>>]
R2 == [id |-> 2, name |-> <<98>>, prepTime |-> <<50, 48>>, cookTime |-> <<49, 48>>]

\* The durations a recipe edit form submits: prep "15 m" with cook "".
EditedTimes == { [prepTime |-> <<49, 53, 32, 109>>, cookTime |-> <<>>] }

\* The menu names the menu form submits: "M".
MenuNames == { <<77>> }

\* The stored menus when the views open: none, or menu "M" embedding R1 and R2.
InitialMenus ==
  { <<>>, << [id |-> 1, name |-> <<77>>, recipes |-> <<R1, R2>>] >> }

\* The days a calendar cell stands for (format(date, 'yyyy-MM-dd')).
CalendarDays == 1..MaxCalendarDay

InitPlan ==
  /\ storeRecipeDocs = <<R1, R2>>
  /\ storeMenus \in InitialMenus
  /\ storeCalendar = <<>>
  /\ recipes = <<>>
  /\ menus = <<>>
  /\ menuRecipes = <<>>
  /\ calendarEntries = <<>>
  /\ calFetch = "done"
  /\ modalMenus = <<>>
  /\ planOps = {}
  /\ menuAtWrite = <<>>
  /\ planView = "menu"
  /\ recipe = [id |-> 1]
  /\ inventory = <<>>
  /\ allInStock = FALSE
  /\ rowInStock = <<>>
  /\ stockPc = "input"
  /\ RecipesIdle
  /\ ExpiryIdle
  /\ RenderIdle
  /\ InventoryIdle
  /\ MountIdle
  /\ ShoppingIdle
  /\ DiaryIdle

\* The pending calls of one handler of these views.
PlanOpsOf(kind) == { o \in planOps : o.kind = kind }

\* The id a new document of a collection gets: one no stored document carries.
FreshDocIds(docs) ==
  LET free == Ids \ IdsOf(docs)
  IN  { i \in free : \A j \in free : i <= j }

\* Recipes view, fetchRecipes: the view is opened and getDocs('menu') resolved.
FetchRecipesOk ==
  /\ planView = "recipes"
  /\ recipes # ListAll(storeRecipeDocs)
  /\ recipes' = ListAll(storeRecipeDocs)
  /\ UNCHANGED <<storeRecipeDocs, storeMenus, storeCalendar, menus, menuRecipes,
                 calendarEntries, calFetch, modalMenus, menuAtWrite, planOps, planView, outsidePlan>>

\* Recipes view, handleSaveEdit(editedRecipe), up to its await: the edit form
\* of a listed recipe is submitted with new durations.
StartRecipeSaveEdit ==
  \E k \in 1..Len(recipes) : \E t \in EditedTimes :
    /\ planView = "recipes"
    /\ Cardinality(planOps) < MaxOps
    /\ planOps' = planOps \cup
         { [kind |-> "recipeEdit",
            item |-> [recipes[k] EXCEPT !.prepTime = t.prepTime,
                                        !.cookTime = t.cookTime],
            snapshot |-> recipes, live |-> TRUE] }
    /\ UNCHANGED <<storeRecipeDocs, storeMenus, storeCalendar, recipes, menus,
                   menuRecipes, calendarEntries, calFetch, modalMenus, menuAtWrite,
                   planView, outsidePlan>>

\* The embedded copies of the recipe in every document of docs replaced by r.
Propagated(docs, r) ==
  [k \in 1..Len(docs) |-> [docs[k] EXCEPT !.recipes = Replaced(@, r)]]

\* A recipe update that also rewrites the copies embedded in the menus.
RecipeSaveEditOkPropagating ==
  \E o \in PlanOpsOf("recipeEdit") :
    /\ storeRecipeDocs' = Updated(storeRecipeDocs, o.item.id, o.item)
    /\ recipes' = IF o.live THEN Replaced(o.snapshot, o.item) ELSE recipes
    /\ storeMenus' = Propagated(storeMenus, o.item)
    /\ menus' = Propagated(menus, o.item)
    /\ planOps' = planOps \ {o}
    /\ UNCHANGED <<storeCalendar, menuRecipes, calendarEntries, calFetch,
                   modalMenus, menuAtWrite, planView, outsidePlan>>

\* Recipes view, handleSaveEdit: updateDoc(doc(db, 'menu', id)) resolved; the
\* recipe is replaced in the recipe list.
RecipeSaveEditOk ==
  \E o \in PlanOpsOf("recipeEdit") :
    /\ storeRecipeDocs' = Updated(storeRecipeDocs, o.item.id, o.item)
    /\ recipes' = IF o.live THEN Replaced(o.snapshot, o.item) ELSE recipes
    /\ planOps' = planOps \ {o}
    /\ UNCHANGED <<storeMenus, storeCalendar, menus, menuRecipes, calendarEntries,
                   calFetch, modalMenus, menuAtWrite, planView, outsidePlan>>

\* Menu view, fetchMenus: the view is opened and getDocs('menus') resolved.
FetchMenusOk ==
  /\ planView = "menu"
  /\ menus # ListAll(storeMenus)
  /\ menus' = ListAll(storeMenus)
  /\ UNCHANGED <<storeRecipeDocs, storeMenus, storeCalendar, recipes, menuRecipes,
                 calendarEntries, calFetch, modalMenus, menuAtWrite, planOps,
                 planView, outsidePlan>>

\* Menu view, fetchRecipes: getDocs('menu') resolved.
FetchMenuRecipesOk ==
  /\ planView = "menu"
  /\ menuRecipes # ListAll(storeRecipeDocs)
  /\ menuRecipes' = ListAll(storeRecipeDocs)
  /\ UNCHANGED <<storeRecipeDocs, storeMenus, storeCalendar, recipes, menus,
                 calendarEntries, calFetch, modalMenus, menuAtWrite, planOps,
                 planView, outsidePlan>>

\* RecipeSelectionModal.handleSave:
\* availableRecipes.filter(r => selectedRecipes.has(r.id))
Selected(availableRecipes, selectedRecipes) ==
  SelectSeq(availableRecipes, LAMBDA r : r.id \in selectedRecipes)

\* Menu view, handleSaveNew(newMenu), up to its await: the form is submitted
\* with a name and a selection of the offered recipes.
StartMenuSaveNew ==
  \E n \in MenuNames : \E sel \in SUBSET IdsOf(menuRecipes) :
    /\ planView = "menu"
    /\ Cardinality(planOps) < MaxOps
    /\ Len(storeMenus) + Cardinality(PlanOpsOf("menuNew")) < MaxMenus
    /\ planOps' = planOps \cup
         { [kind |-> "menuNew",
            item |-> [name |-> n, recipes |-> Selected(menuRecipes, sel)],
            snapshot |-> menus, live |-> TRUE] }
    /\ UNCHANGED <<storeRecipeDocs, storeMenus, storeCalendar, recipes, menus,
                   menuRecipes, calendarEntries, calFetch, modalMenus, menuAtWrite,
                   planView, outsidePlan>>

\* Menu view, handleSaveNew: addDoc(collection(db, 'menus')) resolved; the
\* saved menu is appended.
MenuSaveNewOk ==
  \E o \in PlanOpsOf("menuNew") : \E newId \in FreshDocIds(storeMenus) :
    /\ storeMenus' = InsertById(storeMenus, o.item @@ [id |-> newId])
    /\ menus' = IF o.live THEN Append(o.snapshot, o.item @@ [id |-> newId]) ELSE menus
    /\ planOps' = planOps \ {o}
    /\ UNCHANGED <<storeRecipeDocs, storeCalendar, recipes, menuRecipes,
                   calendarEntries, calFetch, modalMenus, menuAtWrite, planView, outsidePlan>>

\* Menu view, handleSaveEdit(editedMenu), up to its await: the edit form of a
\* listed menu is submitted with a name, and with the embedded recipes it had
\* or a new selection of the offered recipes.
StartMenuSaveEdit ==
  \E k \in 1..Len(menus) : \E n \in MenuNames :
    \E rs \in {menus[k].recipes}
                \cup { Selected(menuRecipes, sel) : sel \in SUBSET IdsOf(menuRecipes) } :
      /\ planView = "menu"
      /\ Cardinality(planOps) < MaxOps
      /\ planOps' = planOps \cup
           { [kind |-> "menuEdit",
              item |-> [menus[k] EXCEPT !.name = n, !.recipes = rs],
              snapshot |-> menus, live |-> TRUE] }
      /\ UNCHANGED <<storeRecipeDocs, storeMenus, storeCalendar, recipes, menus,
                     menuRecipes, calendarEntries, calFetch, modalMenus, menuAtWrite,
                     planView, outsidePlan>>

\* Menu view, handleSaveEdit: updateDoc(doc(db, 'menus', id)) resolved; the
\* menu is replaced in the menu list.
MenuSaveEditOk ==
  \E o \in PlanOpsOf("menuEdit") :
    /\ o.item.id \in IdsOf(storeMenus)
    /\ storeMenus' = Updated(storeMenus, o.item.id, o.item)
    /\ menus' = IF o.live THEN Replaced(o.snapshot, o.item) ELSE menus
    /\ planOps' = planOps \ {o}
    /\ UNCHANGED <<storeRecipeDocs, storeCalendar, recipes, menuRecipes,
                   calendarEntries, calFetch, modalMenus, menuAtWrite, planView, outsidePlan>>

\* { id: menuSnapshot.id, ...menuSnapshot.data() } for getDoc(doc(db, 'menus', id))
\* over the documents docs: data() of a missing document is undefined.
MenuData(docs, id) ==
  IF id \in IdsOf(docs)
    THEN CHOOSE m \in { docs[k] : k \in 1..Len(docs) } : m.id = id
    ELSE [id |-> id]

\* The menu a stored entry had attached when handleSaveMenu created it.
MenuAtWrite(docs, d) ==
  IF d.id \in DOMAIN menuAtWrite THEN menuAtWrite[d.id] ELSE MenuData(docs, d.menuId)

\* fetchCalendarEntries: the menu attached to the entry document d.
LoadedMenu(docs, d) == MenuData(docs, d.menuId)

\* fetchCalendarEntries: { id: docSnapshot.id, ...data, menu: menuData }
Loaded(docs, d) == d @@ [menu |-> LoadedMenu(docs, d)]

\* <Routes>: another view is opened.  The view that was shown is unmounted
\* and its state is gone: a handler call of it that is still awaiting the
\* store goes on, but its state update reaches no mounted view.  The
\* Calendar view's effect starts its fetch.
OpenView ==
  \E v \in {"recipes", "menu", "calendar"} :
    /\ v # planView
    /\ planView' = v
    /\ planOps' = { [o EXCEPT !.live = FALSE] : o \in planOps }
    /\ recipes' = <<>>
    /\ menus' = <<>>
    /\ menuRecipes' = <<>>
    /\ calendarEntries' = <<>>
    /\ modalMenus' = <<>>
    /\ calFetch' = IF v = "calendar" THEN "pending" ELSE "done"
    /\ UNCHANGED <<storeRecipeDocs, storeMenus, storeCalendar, menuAtWrite,
                   outsidePlan>>

\* fetchCalendarEntries: getDocs('calendar') resolved, and for each entry the
\* getDoc of its menu resolved or was rejected; an entry whose menu is missing
\* or whose getDoc was rejected is dropped.
FetchCalendarEntriesOk ==
  \E rejected \in SUBSET IdsOf(storeCalendar) :
    /\ calFetch = "pending"
    /\ calFetch' = "done"
    /\ calendarEntries' =
         LET kept == SelectSeq(ListAll(storeCalendar),
                       LAMBDA d : d.id \notin rejected /\ d.menuId \in IdsOf(storeMenus))
         IN  [k \in 1..Len(kept) |-> Loaded(storeMenus, kept[k])]
    /\ UNCHANGED <<storeRecipeDocs, storeMenus, storeCalendar, recipes, menus,
                   menuRecipes, modalMenus, menuAtWrite, planOps, planView, outsidePlan>>

\* fetchCalendarEntries: getDocs('calendar') rejected; the catch logs.
FetchCalendarEntriesFail ==
  /\ calFetch = "pending"
  /\ calFetch' = "failed"
  /\ UNCHANGED <<storeRecipeDocs, storeMenus, storeCalendar, recipes, menus,
                 menuRecipes, calendarEntries, modalMenus, menuAtWrite, planOps,
                 planView, outsidePlan>>

\* AddMenuModal, fetchMenus: the modal is opened and getDocs('menus') resolved.
ModalFetchMenusOk ==
  /\ planView = "calendar"
  /\ modalMenus # ListAll(storeMenus)
  /\ modalMenus' = ListAll(storeMenus)
  /\ UNCHANGED <<storeRecipeDocs, storeMenus, storeCalendar, recipes, menus,
                 menuRecipes, calendarEntries, calFetch, menuAtWrite, planOps,
                 planView, outsidePlan>>

\* Calendar view, handleSaveMenu(date, menuId), up to its first await: the
\* modal is submitted for a day with one of the menus it lists.
StartSaveMenu ==
  \E d \in CalendarDays : \E k \in 1..Len(modalMenus) :
    /\ planView = "calendar"
    /\ Cardinality(planOps) < MaxOps
    /\ Len(storeCalendar) + Cardinality(PlanOpsOf("saveMenu")) < MaxEntries
    /\ planOps' = planOps \cup
         { [kind |-> "saveMenu", stage |-> "addDoc",
            item |-> [date |-> d, menuId |-> modalMenus[k].id],
            snapshot |-> calendarEntries, live |-> TRUE] }
    /\ UNCHANGED <<storeRecipeDocs, storeMenus, storeCalendar, recipes, menus,
                   menuRecipes, calendarEntries, calFetch, modalMenus, menuAtWrite,
                   planView, outsidePlan>>

\* handleSaveMenu: addDoc(collection(db, 'calendar'), entry) resolved; the
\* handler goes on to getDoc(doc(db, 'menus', menuId)).
SaveMenuAddDocOk ==
  \E o \in PlanOpsOf("saveMenu") : \E newId \in FreshDocIds(storeCalendar) :
    /\ o.stage = "addDoc"
    /\ storeCalendar' = InsertById(storeCalendar, o.item @@ [id |-> newId])
    /\ planOps' = (planOps \ {o}) \cup
         { [kind |-> "saveMenu", stage |-> "getDoc", item |-> o.item,
            snapshot |-> o.snapshot, live |-> o.live, docId |-> newId] }
    /\ UNCHANGED <<storeRecipeDocs, storeMenus, recipes, menus, menuRecipes,
                   calendarEntries, calFetch, modalMenus, menuAtWrite, planView, outsidePlan>>

\* handleSaveMenu: getDoc resolved (exists() is not consulted); the entry is
\* appended with the menu attached.
SaveMenuGetDocOk ==
  \E o \in PlanOpsOf("saveMenu") :
    /\ o.stage = "getDoc"
    /\ calendarEntries' =
         IF o.live
           THEN Append(o.snapshot,
                       o.item @@ [id |-> o.docId,
                                  menu |-> MenuData(storeMenus, o.item.menuId)])
           ELSE calendarEntries
    /\ menuAtWrite' = (o.docId :> MenuData(storeMenus, o.item.menuId)) @@ menuAtWrite
    /\ planOps' = planOps \ {o}
    /\ UNCHANGED <<storeRecipeDocs, storeMenus, storeCalendar, recipes, menus,
                   menuRecipes, calFetch, modalMenus, planView, outsidePlan>>

\* Any of these handlers' pending store call rejected: the catch logs and
\* the handler ends.
PlanHandlerFail ==
  \E o \in planOps :
    /\ planOps' = planOps \ {o}
    /\ UNCHANGED <<storeRecipeDocs, storeMenus, storeCalendar, recipes, menus,
                   menuRecipes, calendarEntries, calFetch, modalMenus, menuAtWrite,
                   planView, outsidePlan>>

NextPlan ==
  \/ FetchRecipesOk
  \/ StartRecipeSaveEdit
  \/ RecipeSaveEditOk
  \/ FetchMenusOk
  \/ FetchMenuRecipesOk
  \/ StartMenuSaveNew
  \/ MenuSaveNewOk
  \/ StartMenuSaveEdit
  \/ MenuSaveEditOk
  \/ OpenView
  \/ FetchCalendarEntriesOk
  \/ FetchCalendarEntriesFail
  \/ ModalFetchMenusOk
  \/ StartSaveMenu
  \/ SaveMenuAddDocOk
  \/ SaveMenuGetDocOk
  \/ PlanHandlerFail

SpecPlan == InitPlan /\ [][NextPlan]_vars

\* C2: when handleSaveMenu, its view still mounted, ends without attaching a
\* menu (the menu fetch was rejected) or for a menu id that names no stored
\* menu, no calendar entry of that call exists in the store or in memory.
C2_AbortLeavesNoEntry ==
  [][\A o \in PlanOpsOf("saveMenu") :
       (/\ o.stage = "getDoc"
        /\ o.live
        /\ planOps' = planOps \ {o}
        /\ planView' = planView
        /\ \/ calendarEntries' = calendarEntries
           \/ o.item.menuId \notin IdsOf(storeMenus))
       => /\ o.docId \notin IdsOf(storeCalendar')
          /\ o.docId \notin IdsOf(calendarEntries')]_vars

\* C5 as stated: in every state, also after the Calendar view was loaded
\* again, an entry shows the menu that was attached when it was scheduled.
C5_Original ==
  \A j \in 1..Len(calendarEntries) :
    calendarEntries[j].id \in DOMAIN menuAtWrite
      => calendarEntries[j].menu = menuAtWrite[calendarEntries[j].id]

\* C5: a stored calendar entry holds the date and the menu id only; a step
\* that changes a stored menu leaves the entries in memory as they are; and
\* every load of the Calendar view attaches the menus as stored at that load.
C5_MenuAttachedAtLoad ==
  /\ [](\A k \in 1..Len(storeCalendar) :
          DOMAIN storeCalendar[k] = {"id", "date", "menuId"})
  /\ [][storeMenus' # storeMenus => calendarEntries' = calendarEntries]_vars
  /\ [][(calFetch = "pending" /\ calFetch' = "done") =>
          \A j \in 1..Len(calendarEntries') :
            calendarEntries'[j].menu =
              MenuData(storeMenus', calendarEntries'[j].menuId)]_vars

\* An entry scheduled by handleSaveMenu is shown, after a load, with the
\* menu as stored now, which is not the menu attached when it was scheduled.
C5_Witness ==
  /\ calFetch = "done"
  /\ \E j \in 1..Len(calendarEntries) :
       /\ calendarEntries[j].id \in DOMAIN menuAtWrite
       /\ calendarEntries[j].menu # menuAtWrite[calendarEntries[j].id]
       /\ calendarEntries[j].menu = MenuData(storeMenus, calendarEntries[j].menuId)

\* C6: the step in which a recipe edit ends changes no stored menu, no menu
\* in memory, no calendar entry and no menu a stored calendar entry refers to,
\* and every stored menu keeps its totals.
C6_RecipeEditKeepsMenus ==
  [][(\E o \in PlanOpsOf("recipeEdit") :
        planOps' = planOps \ {o} /\ planView' = planView) =>
       /\ storeMenus' = storeMenus
       /\ menus' = menus
       /\ calendarEntries' = calendarEntries
       /\ \A j \in 1..Len(storeCalendar) :
            MenuData(storeMenus', storeCalendar[j].menuId) =
              MenuData(storeMenus, storeCalendar[j].menuId)
       /\ \A k \in 1..Len(storeMenus) :
            /\ TotalPrepTime(storeMenus'[k]) = TotalPrepTime(storeMenus[k])
            /\ TotalCookTime(storeMenus'[k]) = TotalCookTime(storeMenus[k])]_vars

\* Menu "M" embeds R1 and R2 with a total of 45, is scheduled, and R1 has been
\* edited in the store since.
C6_Witness ==
  /\ planOps = {}
  /\ \E k \in 1..Len(storeMenus) :
       /\ storeMenus[k].recipes = <<R1, R2>>
       /\ TotalPrepTime(storeMenus[k]) + TotalCookTime(storeMenus[k]) = 45
       /\ \E j \in 1..Len(storeCalendar) :
            storeCalendar[j].menuId = storeMenus[k].id
  /\ \E i \in 1..Len(storeRecipeDocs) :
       storeRecipeDocs[i].id = 1 /\ storeRecipeDocs[i].prepTime # R1.prepTime
  /\ \E i \in 1..Len(recipes) :
       recipes[i].id = 1 /\ recipes[i].prepTime # R1.prepTime

------------------------------------------------------------------------------
(* The Diary view *)

\* What the actions of the Diary view leave alone.
outsideDiary == <<recipesVars, mountVars, renderVars, storeRecipesVars, expiryVars, inventoryVars, shoppingVars, planVars>>

\* interface DiaryEntry: the keys of meals.
MealTypes == {"breakfast", "lunch", "dinner", "snacks"}

\* The meal list the forms' inputs are applied to.
EditedMealTypes == {"breakfast"}

\* The texts typed into a meal item: "" and "e".
MealTexts == { <<>>, <<101>> }

\* The days a diary date stands for ("yyyy-MM-dd").
DiaryDays == 1..MaxDiaryDay

\* DiaryModal's initial meals: [''] for every meal type.
EmptyMeals == [t \in MealTypes |-> << <<>> >>]

\* The stored entry when the view opens: day 1, breakfast ["e"].
StoredEntry ==
  [id |-> 1, date |-> 1, meals |-> [EmptyMeals EXCEPT !["breakfast"] = << <<101>> >>]]

\* s (newest first) with x put after the entries that are not older.
InsertNewestFirst(s, x) ==
  LET k == Cardinality({ i \in 1..Len(s) : s[i].date >= x.date })
  IN  SubSeq(s, 1, k) \o <<x>> \o SubSeq(s, k + 1, Len(s))

\* diaryEntries.sort((a, b) => new Date(b.date).getTime() - new Date(a.date).getTime())
RECURSIVE SortNewestFirst(_)
SortNewestFirst(s) ==
  IF s = <<>> THEN <<>>
  ELSE InsertNewestFirst(SortNewestFirst(SubSeq(s, 1, Len(s) - 1)), s[Len(s)])

\* The form state when no DiaryModal is rendered.
NoForm == [date |-> NoDate]

InitDiary ==
  /\ storeDiary \in { <<>>, <<StoredEntry>> }
  /\ entries = <<>>
  /\ diaryFetch = "pending"
  /\ diaryModal = "closed"
  /\ formData = NoForm
  /\ shared = {}
  /\ openedEntry = [date |-> NoDate]
  /\ diaryOps = {}
  /\ recipe = [id |-> 1]
  /\ inventory = <<>>
  /\ allInStock = FALSE
  /\ rowInStock = <<>>
  /\ stockPc = "input"
  /\ RecipesIdle
  /\ ExpiryIdle
  /\ RenderIdle
  /\ InventoryIdle
  /\ MountIdle
  /\ ShoppingIdle
  /\ PlanIdle

\* The pending calls of one handler of the Diary view.
DiaryOpsOf(kind) == { o \in diaryOps : o.kind = kind }

\* The Diary view is left and opened again: its state starts over.
DiaryMount ==
  /\ diaryFetch # "pending"
  /\ diaryOps = {}
  /\ entries' = <<>>
  /\ diaryFetch' = "pending"
  /\ diaryModal' = "closed"
  /\ formData' = NoForm
  /\ shared' = {}
  /\ openedEntry' = NoForm
  /\ UNCHANGED <<storeDiary, diaryOps, outsideDiary>>

\* fetchDiaryEntries: getDocs('diary') resolved; the entries are new objects,
\* sorted newest first.
FetchDiaryEntriesOk ==
  /\ diaryFetch = "pending"
  /\ diaryFetch' = "done"
  /\ entries' = SortNewestFirst(ListAll(storeDiary))
  /\ shared' = {}
  /\ openedEntry' = NoForm
  /\ UNCHANGED <<storeDiary, diaryModal, formData, diaryOps, outsideDiary>>

\* fetchDiaryEntries: getDocs rejected; the catch logs.
FetchDiaryEntriesFail ==
  /\ diaryFetch = "pending"
  /\ diaryFetch' = "failed"
  /\ UNCHANGED <<storeDiary, entries, diaryModal, formData, shared, openedEntry, diaryOps,
                 outsideDiary>>

\* handleAdd: the add form opens on today's date with fresh meal lists.
HandleAdd ==
  \E d \in DiaryDays :
    /\ diaryModal = "closed"
    /\ diaryModal' = "add"
    /\ formData' = [date |-> d, meals |-> EmptyMeals]
    /\ shared' = {}
    /\ openedEntry' = NoForm
    /\ UNCHANGED <<storeDiary, entries, diaryFetch, diaryOps, outsideDiary>>

\* handleEdit(entry): the edit form opens with useState(initialData), the
\* entry object itself, so the form's meal arrays are the entry's arrays.
HandleEdit ==
  \E k \in 1..Len(entries) :
    /\ diaryModal = "closed"
    /\ diaryModal' = "edit"
    /\ formData' = entries[k]
    /\ shared' = MealTypes
    /\ openedEntry' = entries[k]
    /\ UNCHANGED <<storeDiary, entries, diaryFetch, diaryOps, outsideDiary>>

\* The entries after meals[mealType][index] = value was assigned in the array
\* the entry of id `id` holds.
AssignedInPlace(es, id, mealType, index, value) ==
  [k \in 1..Len(es) |->
     IF es[k].id = id THEN [es[k] EXCEPT !.meals[mealType][index] = value]
     ELSE es[k]]

\* DiaryModal.handleMealChange(mealType, index, value): the meals object is
\* copied, the array of the meal type is not, and the value is assigned into
\* it; an array shared with the entry shown changes in the entry as well.
HandleMealChange ==
  \E t \in EditedMealTypes : \E v \in MealTexts :
    \E i \in 1..(IF diaryModal = "closed" THEN 0 ELSE Len(formData.meals[t])) :
      /\ diaryOps = {}
      /\ formData.meals[t][i] # v
      /\ formData' = [formData EXCEPT !.meals[t][i] = v]
      /\ entries' = IF t \in shared
                      THEN AssignedInPlace(entries, formData.id, t, i, v)
                      ELSE entries
      /\ UNCHANGED <<storeDiary, diaryFetch, diaryModal, shared, openedEntry, diaryOps,
                     outsideDiary>>

\* DiaryModal.addMealItem(mealType): the array is replaced by a longer copy.
AddMealItem ==
  \E t \in EditedMealTypes :
    /\ diaryModal # "closed"
    /\ diaryOps = {}
    /\ Len(formData.meals[t]) < MaxMealItems
    /\ formData' = [formData EXCEPT !.meals[t] = Append(@, <<>>)]
    /\ shared' = shared \ {t}
    /\ openedEntry' = openedEntry
    /\ UNCHANGED <<storeDiary, entries, diaryFetch, diaryModal, diaryOps,
                   outsideDiary>>

\* DiaryModal.removeMealItem(mealType, index): the array is replaced by a
\* filtered copy.
RemoveMealItem ==
  \E t \in EditedMealTypes :
    \E i \in 1..(IF diaryModal = "closed" THEN 0 ELSE Len(formData.meals[t])) :
      /\ diaryOps = {}
      /\ formData' = [formData EXCEPT !.meals[t] =
                        SubSeq(@, 1, i - 1) \o SubSeq(@, i + 1, Len(@))]
      /\ shared' = shared \ {t}
      /\ openedEntry' = openedEntry
      /\ UNCHANGED <<storeDiary, entries, diaryFetch, diaryModal, diaryOps,
                     outsideDiary>>

\* DiaryModal: the date input changes.
ChangeDate ==
  \E d \in DiaryDays :
    /\ diaryModal # "closed"
    /\ diaryOps = {}
    /\ formData.date # d
    /\ formData' = [formData EXCEPT !.date = d]
    /\ UNCHANGED <<storeDiary, entries, diaryFetch, diaryModal, shared, openedEntry, diaryOps,
                   outsideDiary>>

\* onClose: the form is cancelled.
CloseDiaryModal ==
  /\ diaryModal # "closed"
  /\ diaryOps = {}
  /\ diaryModal' = "closed"
  /\ formData' = NoForm
  /\ shared' = {}
  /\ openedEntry' = NoForm
  /\ UNCHANGED <<storeDiary, entries, diaryFetch, diaryOps, outsideDiary>>

\* handleSaveNew(newEntry), up to its await: the add form is submitted.
StartDiarySaveNew ==
  /\ diaryModal = "add"
  /\ Cardinality(diaryOps) < MaxOps
  /\ Len(storeDiary) < MaxDiary
  /\ diaryOps' = diaryOps \cup
       { [kind |-> "diaryNew", item |-> formData, snapshot |-> entries] }
  /\ UNCHANGED <<storeDiary, entries, diaryFetch, diaryModal, formData, shared, openedEntry,
                 outsideDiary>>

\* handleSaveNew: addDoc resolved; the saved entry is put first and the form
\* closes.
DiarySaveNewOk ==
  \E o \in DiaryOpsOf("diaryNew") : \E newId \in FreshDocIds(storeDiary) :
    /\ storeDiary' = InsertById(storeDiary, o.item @@ [id |-> newId])
    /\ entries' = <<o.item @@ [id |-> newId]>> \o o.snapshot
    /\ diaryModal' = "closed"
    /\ formData' = NoForm
    /\ shared' = {}
    /\ openedEntry' = NoForm
    /\ diaryOps' = diaryOps \ {o}
    /\ UNCHANGED <<diaryFetch, outsideDiary>>

\* handleSaveEdit(editedEntry), up to its await: the edit form is submitted.
StartDiarySaveEdit ==
  /\ diaryModal = "edit"
  /\ Cardinality(diaryOps) < MaxOps
  /\ diaryOps' = diaryOps \cup
       { [kind |-> "diaryEdit", item |-> formData, snapshot |-> entries] }
  /\ UNCHANGED <<storeDiary, entries, diaryFetch, diaryModal, formData, shared, openedEntry,
                 outsideDiary>>

\* handleSaveEdit: updateDoc resolved; the entry is replaced and the form
\* closes.
DiarySaveEditOk ==
  \E o \in DiaryOpsOf("diaryEdit") :
    /\ o.item.id \in IdsOf(storeDiary)
    /\ storeDiary' = Updated(storeDiary, o.item.id, o.item)
    /\ entries' = Replaced(o.snapshot, o.item)
    /\ diaryModal' = "closed"
    /\ formData' = NoForm
    /\ shared' = {}
    /\ openedEntry' = NoForm
    /\ diaryOps' = diaryOps \ {o}
    /\ UNCHANGED <<diaryFetch, outsideDiary>>

\* handleDelete(entry), up to its await: the confirm dialog was accepted.
StartDiaryDelete ==
  \E k \in 1..Len(entries) :
    /\ diaryModal = "closed"
    /\ Cardinality(diaryOps) < MaxOps
    /\ diaryOps' = diaryOps \cup
         { [kind |-> "diaryDelete", item |-> [id |-> entries[k].id],
            confirmed |-> TRUE, snapshot |-> entries] }
    /\ UNCHANGED <<storeDiary, entries, diaryFetch, diaryModal, formData, shared, openedEntry,
                   outsideDiary>>

\* handleDelete: deleteDoc resolved; the entry is filtered out.
DiaryDeleteOk ==
  \E o \in DiaryOpsOf("diaryDelete") :
    /\ storeDiary' = Without(storeDiary, o.item.id)
    /\ entries' = Without(o.snapshot, o.item.id)
    /\ diaryOps' = diaryOps \ {o}
    /\ UNCHANGED <<diaryFetch, diaryModal, formData, shared, openedEntry, outsideDiary>>

\* A handler's store call rejected: the catch logs; an open form stays open.
DiaryHandlerFail ==
  \E o \in diaryOps :
    /\ diaryOps' = diaryOps \ {o}
    /\ UNCHANGED <<storeDiary, entries, diaryFetch, diaryModal, formData, shared, openedEntry,
                   outsideDiary>>

NextDiary ==
  \/ DiaryMount
  \/ FetchDiaryEntriesOk
  \/ FetchDiaryEntriesFail
  \/ HandleAdd
  \/ HandleEdit
  \/ HandleMealChange
  \/ AddMealItem
  \/ RemoveMealItem
  \/ ChangeDate
  \/ CloseDiaryModal
  \/ StartDiarySaveNew
  \/ DiarySaveNewOk
  \/ StartDiarySaveEdit
  \/ DiarySaveEditOk
  \/ StartDiaryDelete
  \/ DiaryDeleteOk
  \/ DiaryHandlerFail

SpecDiary == InitDiary /\ [][NextDiary]_vars

\* C10: the in-memory entries change only in a step in which a call to the
\* store resolves (or the view is mounted): never while the user is still
\* editing a form, before any store write.
C10_MirrorAfterSuccess ==
  [][entries' # entries => (diaryOps' # diaryOps \/ diaryFetch' # diaryFetch)]_vars

------------------------------------------------------------------------------
(* The Inventory view: its item list *)

\* What the actions of the Inventory view's item list leave alone.
outsideInventory == <<recipesVars, mountVars, renderVars, storeLists, storeItems, expiryVars, shoppingVars,
                      planVars, diaryVars>>

\* Item names the form submits: "a", "b".
InvNames == { <<97>>, <<98>> }

\* The stored inventory when the view opens: empty, or one item "a".
InitialInventories == { <<>>, <<[id |-> 1, name |-> <<97>>]>> }

\* Inventory(): the useState initial values, and the effect's fetch started.
InitInventory ==
  /\ storeInventory \in InitialInventories
  /\ ivInventory = <<>>
  /\ isAddModalOpen = FALSE
  /\ selectedItem = NoItem
  /\ ivFetch = "pending"
  /\ ivOps = {}
  /\ recipe = [id |-> 1]
  /\ inventory = <<>>
  /\ allInStock = FALSE
  /\ rowInStock = <<>>
  /\ stockPc = "input"
  /\ currentList = NoList
  /\ addPc = "idle"
  /\ addList = NoList
  /\ missing = <<>>
  /\ addK = 0
  /\ alerted = FALSE
  /\ invFetch = "done"
  /\ listFetch = "done"
  /\ rvShoppingLists = <<>>
  /\ storeLists = <<>>
  /\ storeItems = <<>>
  /\ MountIdle
  /\ ExpiryIdle
  /\ RenderIdle
  /\ ShoppingIdle
  /\ PlanIdle
  /\ DiaryIdle

\* History kept in a pending call: whether it was invoked with the fetch done
\* and the list in memory equal to the stored one (and so were the calls in
\* flight then); it starts out not overlapped and with no failed peer.
InvHistory ==
  [synced |-> /\ ivFetch = "done"
              /\ ivInventory = ListAll(storeInventory)
              /\ \A p \in ivOps : p.synced,
   overlapped |-> ivOps # {},
   peerFailed |-> FALSE]

\* The calls in flight when one more handler is invoked.
Overlapped(pending) == { [p EXCEPT !.overlapped = TRUE] : p \in pending }

\* The pending calls of one handler of the Inventory view.
InvOpsOf(kind) == { o \in ivOps : o.kind = kind }

\* fetchInventory: getDocs('inventory') resolved.
InvFetchInventoryOk ==
  /\ ivFetch = "pending"
  /\ ivFetch' = "done"
  /\ ivInventory' = ListAll(storeInventory)
  /\ UNCHANGED <<storeInventory, isAddModalOpen, selectedItem, ivOps, outsideInventory>>

\* fetchInventory: getDocs rejected; the catch logs.
InvFetchInventoryFail ==
  /\ ivFetch = "pending"
  /\ ivFetch' = "failed"
  /\ UNCHANGED <<storeInventory, ivInventory, isAddModalOpen, selectedItem, ivOps,
                 outsideInventory>>

\* handleAdd: the add form opens.
InvHandleAdd ==
  /\ ~isAddModalOpen /\ selectedItem = NoItem
  /\ isAddModalOpen' = TRUE
  /\ UNCHANGED <<storeInventory, ivInventory, selectedItem, ivFetch, ivOps,
                 outsideInventory>>

\* handleEdit(item): the edit form opens on a listed item.
InvHandleEdit ==
  \E k \in 1..Len(ivInventory) :
    /\ ~isAddModalOpen /\ selectedItem = NoItem
    /\ selectedItem' = ivInventory[k]
    /\ UNCHANGED <<storeInventory, ivInventory, isAddModalOpen, ivFetch, ivOps,
                   outsideInventory>>

\* ItemModal onClose of either form.
InvCloseModal ==
  /\ isAddModalOpen \/ selectedItem # NoItem
  /\ isAddModalOpen' = FALSE
  /\ selectedItem' = NoItem
  /\ UNCHANGED <<storeInventory, ivInventory, ivFetch, ivOps, outsideInventory>>

\* handleSaveNew(newItem), up to its await: the add form is submitted.
StartInvSaveNew ==
  \E n \in InvNames :
    /\ isAddModalOpen
    /\ Cardinality(ivOps) < MaxInvOps
    /\ Len(storeInventory) + Cardinality(InvOpsOf("saveNew")) < MaxInventory
    /\ Len(ivInventory) < MaxInventory
    /\ ivOps' = Overlapped(ivOps) \cup
         { [kind |-> "saveNew", item |-> [name |-> n], snapshot |-> ivInventory]
             @@ InvHistory }
    /\ UNCHANGED <<storeInventory, ivInventory, isAddModalOpen, selectedItem, ivFetch,
                   outsideInventory>>

\* handleSaveNew: addDoc(collection(db, 'inventory')) resolved; the item is
\* appended with docRef.id and the form closes.
InvSaveNewOk ==
  \E o \in InvOpsOf("saveNew") : \E newId \in FreshDocIds(storeInventory) :
    /\ storeInventory' = InsertById(storeInventory, o.item @@ [id |-> newId])
    /\ ivInventory' = Append(o.snapshot, o.item @@ [id |-> newId])
    /\ isAddModalOpen' = FALSE
    /\ ivOps' = ivOps \ {o}
    /\ UNCHANGED <<selectedItem, ivFetch, outsideInventory>>

\* handleSaveEdit(editedItem), up to its await: the edit form, opened on
\* selectedItem, is submitted with a name.
StartInvSaveEdit ==
  \E n \in InvNames :
    /\ selectedItem # NoItem
    /\ Cardinality(ivOps) < MaxInvOps
    /\ ivOps' = Overlapped(ivOps) \cup
         { [kind |-> "saveEdit", item |-> [selectedItem EXCEPT !.name = n],
            snapshot |-> ivInventory] @@ InvHistory }
    /\ UNCHANGED <<storeInventory, ivInventory, isAddModalOpen, selectedItem, ivFetch,
                   outsideInventory>>

\* handleSaveEdit: updateDoc(doc(db, 'inventory', selectedItem.id)) resolved
\* (the document exists); the item of that id is replaced by
\* { ...editedItem, id: selectedItem.id } and the form closes.
InvSaveEditOk ==
  \E o \in InvOpsOf("saveEdit") :
    /\ o.item.id \in IdsOf(storeInventory)
    /\ storeInventory' = Updated(storeInventory, o.item.id, o.item)
    /\ ivInventory' = Replaced(o.snapshot, o.item)
    /\ selectedItem' = NoItem
    /\ ivOps' = ivOps \ {o}
    /\ UNCHANGED <<isAddModalOpen, ivFetch, outsideInventory>>

\* handleDelete(item): confirm(...) returned false; nothing is called.
InvDeleteDeclined ==
  \E k \in 1..Len(ivInventory) :
    /\ ~isAddModalOpen /\ selectedItem = NoItem
    /\ UNCHANGED <<storeInventory, inventoryVars, outsideInventory>>

\* handleDelete(item), up to its await: confirm(...) returned true.
StartInvDelete ==
  \E k \in 1..Len(ivInventory) :
    /\ ~isAddModalOpen /\ selectedItem = NoItem
    /\ Cardinality(ivOps) < MaxInvOps
    /\ ivOps' = Overlapped(ivOps) \cup
         { [kind |-> "delete", item |-> [id |-> ivInventory[k].id],
            confirmed |-> TRUE, snapshot |-> ivInventory] @@ InvHistory }
    /\ UNCHANGED <<storeInventory, ivInventory, isAddModalOpen, selectedItem, ivFetch,
                   outsideInventory>>

\* handleDelete: deleteDoc resolved; the item is filtered out.
InvDeleteOk ==
  \E o \in InvOpsOf("delete") :
    /\ storeInventory' = Without(storeInventory, o.item.id)
    /\ ivInventory' = Without(o.snapshot, o.item.id)
    /\ ivOps' = ivOps \ {o}
    /\ UNCHANGED <<isAddModalOpen, selectedItem, ivFetch, outsideInventory>>

\* A handler's store call rejected: the catch logs; an open form stays open.
InvHandlerFail ==
  \E o \in ivOps :
    /\ ivOps' = { [p EXCEPT !.peerFailed = TRUE] : p \in ivOps \ {o} }
    /\ UNCHANGED <<storeInventory, ivInventory, isAddModalOpen, selectedItem, ivFetch,
                   outsideInventory>>

NextInventory ==
  \/ InvFetchInventoryOk
  \/ InvFetchInventoryFail
  \/ InvHandleAdd
  \/ InvHandleEdit
  \/ InvCloseModal
  \/ StartInvSaveNew
  \/ InvSaveNewOk
  \/ StartInvSaveEdit
  \/ InvSaveEditOk
  \/ InvDeleteDeclined
  \/ StartInvDelete
  \/ InvDeleteOk
  \/ InvHandlerFail

SpecInventory == InitInventory /\ [][NextInventory]_vars

(***************************************************************************)
(* C16: after a successful store create the in-memory collection is the    *)
(* previous collection with exactly one new record appended, that record   *)
(* carrying the server-assigned id and the submitted fields, and no        *)
(* existing record is changed.  A create has succeeded in the step that    *)
(* removes its pending call and adds a document to the store.              *)
(***************************************************************************)
C16_CreateAppends ==
  [][\A o \in InvOpsOf("saveNew") :
       (ivOps' = ivOps \ {o} /\ storeInventory' # storeInventory) =>
         \E newId \in IdsOf(storeInventory') \ IdsOf(storeInventory) :
           ivInventory' = Append(ivInventory, o.item @@ [id |-> newId])]_vars

(***************************************************************************)
(* C17: after a successful store update the in-memory collection has the   *)
(* same length and the same ids in the same positions, the record of the   *)
(* edited id is replaced by the edited fields with its id kept, and every  *)
(* other record is unchanged.                                              *)
(***************************************************************************)
C17_UpdateReplaces ==
  [][\A o \in InvOpsOf("saveEdit") :
       (ivOps' = ivOps \ {o} /\ storeInventory' # storeInventory) =>
         /\ Len(ivInventory') = Len(ivInventory)
         /\ \A k \in 1..Len(ivInventory) :
              /\ ivInventory'[k].id = ivInventory[k].id
              /\ ivInventory'[k] = IF ivInventory[k].id = o.item.id
                                     THEN o.item
                                     ELSE ivInventory[k]]_vars

(***************************************************************************)
(* C18: after a successful store delete the in-memory collection is the    *)
(* previous collection without the record of the deleted id, all other     *)
(* records kept in their relative order.                                   *)
(***************************************************************************)
C18_DeleteRemoves ==
  [][\A o \in InvOpsOf("delete") :
       (ivOps' = ivOps \ {o} /\ storeInventory' # storeInventory) =>
         ivInventory' = SelectSeq(ivInventory, LAMBDA d : d.id # o.item.id)]_vars

\* The store delete calls in flight, in every view that deletes entities.
PendingDeletes ==
  { o \in ops \cup diaryOps \cup ivOps :
      o.kind \in {"deleteItem", "deleteSelected", "diaryDelete", "delete"} }

(***************************************************************************)
(* C19: in every view that deletes entities the store delete call is       *)
(* issued only after the user has confirmed the deletion: every delete     *)
(* call in flight was started by a handler whose confirm(...) returned     *)
(* true.                                                                   *)
(***************************************************************************)
C19_DeleteConfirmed ==
  \A o \in PendingDeletes : "confirmed" \in DOMAIN o /\ o.confirmed

------------------------------------------------------------------------------
(* The Recipes view: the three fetches its mount effect starts together *)

\* The 'menu' collection when the view opens: empty, or two recipes.
MountRecipeDocs == { <<>>, <<R1, R2>> }

\* location.state?.selectedRecipeId: undefined, the id of a stored recipe, or
\* an id no stored recipe carries.
SelectedRecipeIds == { 0, 1, 3 }

\* Recipes(): the useState initial values, and the effect has called
\* fetchRecipes(), fetchInventory() and fetchShoppingLists().
InitMount ==
  /\ recipe = [id |-> 1]
  /\ storeInventory \in StoreInventories
  /\ storeLists \in { WithIds([k \in 1..n |-> [name |-> <<>>]]) : n \in 0..MaxLists }
  /\ storeItems = InitialItems(storeLists)
  /\ storeRecipeDocs \in MountRecipeDocs
  /\ selectedRecipeId \in SelectedRecipeIds
  /\ recipes = <<>>
  /\ showIngredients = <<>>
  /\ selectedRecipe = NoRecipe
  /\ inventory = <<>>
  /\ rvShoppingLists = <<>>
  /\ currentList = NoList
  /\ recipesFetch = "pending"
  /\ invFetch = "pending"
  /\ listFetch = "pending"
  /\ allInStock = FALSE
  /\ rowInStock = <<>>
  /\ stockPc = "input"
  /\ addPc = "idle"
  /\ addList = NoList
  /\ missing = <<>>
  /\ addK = 0
  /\ alerted = FALSE
  /\ storeMenus = <<>>
  /\ storeCalendar = <<>>
  /\ menus = <<>>
  /\ menuRecipes = <<>>
  /\ calendarEntries = <<>>
  /\ calFetch = "done"
  /\ modalMenus = <<>>
  /\ planOps = {}
  /\ menuAtWrite = <<>>
  /\ planView = "recipes"
  /\ ExpiryIdle
  /\ RenderIdle
  /\ InventoryIdle
  /\ ShoppingIdle
  /\ DiaryIdle

\* fetchRecipes: getDocs resolved; the recipes are set, every recipe's
\* ingredients are hidden, and the recipe the navigation named is selected
\* when it is among them.
MountFetchRecipesOk ==
  /\ recipesFetch = "pending"
  /\ LET recipeData == ListAll(storeRecipeDocs)
     IN  /\ recipes' = recipeData
         /\ showIngredients' = [i \in IdsOf(recipeData) |-> FALSE]
         /\ selectedRecipe' =
              IF selectedRecipeId # 0 /\ selectedRecipeId \in IdsOf(recipeData)
                THEN DocOf(recipeData, selectedRecipeId)
                ELSE selectedRecipe
  /\ recipesFetch' = "done"
  /\ UNCHANGED <<recipesVars, selectedRecipeId, renderVars, storeRecipesVars, expiryVars,
                 inventoryVars, shoppingVars, diaryVars>>
  /\ UNCHANGED <<storeRecipeDocs, storeMenus, storeCalendar, menus, menuRecipes,
                 calendarEntries, calFetch, modalMenus, planOps, menuAtWrite, planView>>

\* fetchRecipes: getDocs rejected; the catch logs.
MountFetchRecipesFail ==
  /\ recipesFetch = "pending"
  /\ recipesFetch' = "failed"
  /\ UNCHANGED <<recipesVars, showIngredients, selectedRecipe, selectedRecipeId,
                 renderVars, storeRecipesVars, expiryVars, inventoryVars, shoppingVars, planVars,
                 diaryVars>>

NextMount ==
  \/ MountFetchRecipesOk
  \/ MountFetchRecipesFail
  \/ FetchInventoryOk
  \/ FetchInventoryFail
  \/ FetchShoppingListsOk
  \/ FetchShoppingListsFail

SpecMount == InitMount /\ [][NextMount]_vars

\* The pieces of in-memory state of the Recipes view.
RecipesPiece == <<recipes, showIngredients, selectedRecipe>>
InventoryPiece == <<inventory>>
ListsPiece == <<rvShoppingLists, currentList>>

(***************************************************************************)
(* C20: the fetches the Recipes view starts together each write a disjoint *)
(* piece of in-memory state.  Whatever the order of the responses and      *)
(* whichever of them fail, each piece is what its own fetch alone          *)
(* produces: the fetched value once that fetch has resolved, the initial   *)
(* value while it is in flight or after it failed; and a step changes a    *)
(* piece only when that piece's own fetch resolves.                        *)
(***************************************************************************)
C20_FetchesIndependent ==
  /\ [](/\ RecipesPiece =
             IF recipesFetch = "done"
               THEN <<storeRecipeDocs,
                      [i \in IdsOf(storeRecipeDocs) |-> FALSE],
                      IF \E k \in 1..Len(storeRecipeDocs) :
                           storeRecipeDocs[k].id = selectedRecipeId
                        THEN DocOf(storeRecipeDocs, selectedRecipeId)
                        ELSE NoRecipe>>
               ELSE <<<<>>, <<>>, NoRecipe>>
        /\ InventoryPiece =
             IF invFetch = "done" THEN <<storeInventory>> ELSE << <<>> >>
        /\ ListsPiece =
             IF listFetch = "done"
               THEN <<storeLists,
                      IF storeLists # <<>> THEN storeLists[1].id ELSE NoList>>
               ELSE <<<<>>, NoList>>)
  /\ [][/\ RecipesPiece' # RecipesPiece =>
             /\ recipesFetch = "pending" /\ recipesFetch' = "done"
             /\ InventoryPiece' = InventoryPiece /\ ListsPiece' = ListsPiece
        /\ InventoryPiece' # InventoryPiece =>
             /\ invFetch = "pending" /\ invFetch' = "done"
             /\ RecipesPiece' = RecipesPiece /\ ListsPiece' = ListsPiece
        /\ ListsPiece' # ListsPiece =>
             /\ listFetch = "pending" /\ listFetch' = "done"
             /\ RecipesPiece' = RecipesPiece /\ InventoryPiece' = InventoryPiece]_vars

\* The recipes fetch failed after the other two had resolved, and those two
\* pieces hold what was fetched.
C20_Witness ==
  /\ recipesFetch = "failed" /\ invFetch = "done" /\ listFetch = "done"
  /\ storeRecipeDocs # <<>> /\ recipes = <<>>
  /\ Len(inventory) = MaxInventory
  /\ Len(rvShoppingLists) = MaxLists /\ currentList = 1

------------------------------------------------------------------------------
(* The Menu view: the total times of a menu *)

\* What a derivation leaves alone.
outsideRender == <<recipesVars, mountVars, storeRecipesVars, expiryVars, inventoryVars,
                   shoppingVars, planVars, diaryVars>>

\* The other views' state while a derivation is followed.
ViewsIdle ==
  /\ recipe = [id |-> 1]
  /\ inventory = <<>>
  /\ allInStock = FALSE
  /\ rowInStock = <<>>
  /\ stockPc = "input"
  /\ rvShoppingLists = <<>>
  /\ RecipesIdle
  /\ MountIdle
  /\ ExpiryIdle
  /\ InventoryIdle
  /\ ShoppingIdle
  /\ PlanIdle
  /\ DiaryIdle

\* Duration texts: "", "5", "15 m", "m", " 5", "-5", "m5", "1.5".
Durations ==
  { <<>>, <<53>>, <<49, 53, 32, 109>>, <<109>>, <<32, 53>>, <<45, 53>>, <<109, 53>>,
    <<49, 46, 53>> }

\* The embedded recipes of a menu: any prep text or none, cook "", "5" or "m".
TimedRecipes ==
  { [prepTime |-> p, cookTime |-> c] : p \in Durations, c \in { <<>>, <<53>>, <<109>> } }
    \cup { [cookTime |-> c] : c \in { <<>>, <<53>>, <<109>> } }

InitTotals ==
  /\ props \in { [menu |-> [id |-> 1, recipes |-> rs]] :
                   rs \in SeqUpTo(TimedRecipes, MaxMenuRecipes) }
  /\ shown = NoProps
  /\ renderPc = "input"
  /\ ViewsIdle

\* MenuDetailsModal renders: totalPrepTime and totalCookTime.
RenderMenuDetails ==
  /\ renderPc = "input"
  /\ "menu" \in DOMAIN props
  /\ "totalPrepTime" \notin DOMAIN shown
  /\ shown' = [totalPrepTime |-> TotalPrepTime(props.menu),
               totalCookTime |-> TotalCookTime(props.menu)] @@ shown
  /\ UNCHANGED <<props, renderPc, outsideRender>>

\* The menu card renders: its Total.
RenderMenuCard ==
  /\ renderPc = "input"
  /\ "menu" \in DOMAIN props
  /\ "total" \notin DOMAIN shown
  /\ shown' = [total |-> CardSum(props.menu.recipes)] @@ shown
  /\ UNCHANGED <<props, renderPc, outsideRender>>

NextTotals == RenderMenuDetails \/ RenderMenuCard

SpecTotals == InitTotals /\ [][NextTotals]_vars

\* The sum of a sequence of integers.
RECURSIVE SeqSum(_)
SeqSum(q) == IF q = <<>> THEN 0 ELSE Head(q) + SeqSum(Tail(q))

\* The leading integer of a text: after its leading blanks and an optional
\* sign, the number its longest run of decimal digits denotes; 0 when that
\* run is empty.
LeadingInteger(s) ==
  LET b  == CHOOSE n \in 0..Len(s) :
              /\ \A i \in 1..n : s[i] = 32
              /\ n = Len(s) \/ s[n + 1] # 32
      sg == IF b < Len(s) /\ s[b + 1] \in {43, 45} THEN 1 ELSE 0
      st == b + sg
      n  == CHOOSE m \in 0..(Len(s) - st) :
              /\ \A i \in 1..m : s[st + i] \in 48..57
              /\ st + m = Len(s) \/ s[st + m + 1] \notin 48..57
      mag == SeqSum([i \in 1..n |-> (s[st + i] - 48) * 10 ^ (n - i)])
  IN  IF sg = 1 /\ s[b + 1] = 45 THEN 0 - mag ELSE mag

------------------------------------------------------------------------------
(* The Recipes and Inventory views: the filtered lists *)

\* Search terms: "", "a", "B".
SearchTerms == { <<>>, <<97>>, <<66>> }

\* The recipes of the list: name "a" or "Ab", description "" or "b", cuisine
\* "", a category, and ingredients undefined, none, "a", or one without name.
RecipeRecords ==
  LET base == { [name |-> n, description |-> d, cuisine |-> <<>>, category |-> c] :
                  n \in { <<97>>, <<65, 98>> }, d \in { <<>>, <<98>> },
                  c \in {"Main", "Side"} }
  IN  base \cup { b @@ [ingredients |-> g] :
                    b \in base, g \in { <<>>, <<[name |-> <<97>>]>>,
                                         <<[unit |-> "cups"]>> } }

\* The items of the inventory list: name "a", "Ab" or undefined, a category.
ItemRecords ==
  { [name |-> n, category |-> c] : n \in { <<97>>, <<65, 98>> }, c \in {"Dairy", "Meat"} }
    \cup { [category |-> c] : c \in {"Dairy", "Meat"} }

InitFilter ==
  /\ props \in
       { [view |-> "recipes", records |-> WithIds(rs), searchTerm |-> t,
          categoryFilter |-> c, showOnlyInStock |-> b, inventory |-> inv] :
            rs \in SeqUpTo(RecipeRecords, MaxRecords), t \in SearchTerms,
            c \in {"", "Main"}, b \in BOOLEAN,
            inv \in { <<>>, <<[id |-> 1, name |-> <<97>>]>> } }
       \cup
       { [view |-> "inventory", records |-> WithIds(rs), searchTerm |-> t,
          categoryFilter |-> c] :
            rs \in SeqUpTo(ItemRecords, MaxRecords), t \in SearchTerms,
            c \in {"", "Dairy"} }
  /\ shown = NoProps
  /\ renderPc = "input"
  /\ ViewsIdle

\* s.toLowerCase().includes(searchTerm.toLowerCase())
MatchesTerm(s, term) == Includes(ToLowerCase(s), ToLowerCase(term))

\* filteredRecipes, matchesSearch: name || description || cuisine ||
\* ingredients.some(...), evaluated left to right.
RecipeMatchesSearch(r, term) ==
  \/ MatchesTerm(r.name, term)
  \/ MatchesTerm(r.description, term)
  \/ MatchesTerm(r.cuisine, term)
  \/ \E k \in 1..Len(r.ingredients) :
       /\ "name" \in DOMAIN r.ingredients[k]
       /\ MatchesTerm(r.ingredients[k].name, term)

\* recipe.ingredients.some is reached, and throws a TypeError, when none of
\* the three texts matches and the recipe has no ingredients array.
RecipeSearchThrows(r, term) ==
  /\ ~MatchesTerm(r.name, term)
  /\ ~MatchesTerm(r.description, term)
  /\ ~MatchesTerm(r.cuisine, term)
  /\ "ingredients" \notin DOMAIN r

\* The callback of recipes.filter(...).
RecipeShown(r, p) ==
  /\ RecipeMatchesSearch(r, p.searchTerm)
  /\ p.categoryFilter = "" \/ r.category = p.categoryFilter
  /\ ~p.showOnlyInStock \/ HasAllIngredientsInStock(r, p.inventory)

\* The Recipes view renders: filteredRecipes.
RenderFilteredRecipes ==
  /\ renderPc = "input"
  /\ "view" \in DOMAIN props /\ props.view = "recipes"
  /\ IF \E k \in 1..Len(props.records) :
          RecipeSearchThrows(props.records[k], props.searchTerm)
       THEN /\ renderPc' = "threw"
            /\ shown' = shown
       ELSE /\ renderPc' = "applied"
            /\ shown' = [records |->
                           SelectSeq(props.records, LAMBDA r : RecipeShown(r, props))]
  /\ UNCHANGED <<props, outsideRender>>

\* The callback of inventory.filter(...), on an item with a name.
ItemShown(item, p) ==
  /\ MatchesTerm(item.name, p.searchTerm)
  /\ p.categoryFilter = "" \/ item.category = p.categoryFilter

\* The Inventory view renders: filteredInventory.  item.name.toLowerCase()
\* throws a TypeError on an item without name.
RenderFilteredInventory ==
  /\ renderPc = "input"
  /\ "view" \in DOMAIN props /\ props.view = "inventory"
  /\ IF \E k \in 1..Len(props.records) : "name" \notin DOMAIN props.records[k]
       THEN /\ renderPc' = "threw"
            /\ shown' = shown
       ELSE /\ renderPc' = "applied"
            /\ shown' = [records |->
                           SelectSeq(props.records, LAMBDA r : ItemShown(r, props))]
  /\ UNCHANGED <<props, outsideRender>>

NextFilter == RenderFilteredRecipes \/ RenderFilteredInventory

SpecFilter == InitFilter /\ [][NextFilter]_vars

\* The texts of a record the search looks at: its name, description and
\* cuisine and the names of its ingredients, where it has them.
SearchableTexts(r) ==
  { r[f] : f \in {"name", "description", "cuisine"} \cap DOMAIN r }
    \cup (IF "ingredients" \in DOMAIN r
            THEN { NameOf(r.ingredients[k]) : k \in 1..Len(r.ingredients) } \ {Undefined}
            ELSE {})

\* A record passes every active predicate.
PassesAll(r, p) ==
  /\ \/ p.searchTerm = <<>>
     \/ \E s \in SearchableTexts(r) : Includes(ToLowerCase(s), ToLowerCase(p.searchTerm))
  /\ p.categoryFilter = "" \/ ("category" \in DOMAIN r /\ r.category = p.categoryFilter)
  /\ \/ "showOnlyInStock" \notin DOMAIN p
     \/ ~p.showOnlyInStock
     \/ HasAllIngredientsInStock(r, p.inventory)

\* The filtered list was rendered and holds exactly the passing records.
ShowsPassing ==
  /\ renderPc = "applied"
  /\ shown.records = SelectSeq(props.records, LAMBDA r : PassesAll(r, props))

(***************************************************************************)
(* C22: the records a filtered view shows are exactly those that pass all  *)
(* active predicates: the text search (case-insensitive substring over the *)
(* searchable fields), the category equality and, in the Recipes view with *)
(* the toggle on, hasAllIngredientsInStock; an empty category filter and   *)
(* an empty search term each match every record.                           *)
(***************************************************************************)
C22_FilterShowsPassing ==
  ("records" \in DOMAIN props /\ renderPc # "input") => ShowsPassing

------------------------------------------------------------------------------
(* The shopping item forms: product variants *)

\* Numbers: a finite value num/den (den > 0, in lowest terms), NaN, or an
\* infinity with its sign.
Finite(n, d) == [kind |-> "finite", num |-> n, den |-> d]
NaN == [kind |-> "NaN"]
Infinity(sign) == [kind |-> "Infinity", sign |-> sign]

Abs(n) == IF n < 0 THEN 0 - n ELSE n

RECURSIVE Gcd(_, _)
Gcd(a, b) == IF b = 0 THEN a ELSE Gcd(b, a % b)

\* A division that answers 0 for a zero or unreadable divisor.
DivideGuarded(a, b) ==
  IF a.kind # "finite" \/ b.kind # "finite" \/ b.num = 0 THEN Finite(0, 1)
  ELSE LET n == a.num * b.den * (IF b.num < 0 THEN 0 - 1 ELSE 1)
           d == a.den * Abs(b.num)
           g == Gcd(Abs(n), d)
       IN  Finite(n \div g, d \div g)

\* a / b on numbers read by parseFloat from the form's fields: NaN when
\* either is NaN or both are 0, an infinity when only b is 0.
Divide(a, b) ==
  IF a.kind = "NaN" \/ b.kind = "NaN" THEN NaN
  ELSE IF b.num = 0
    THEN IF a.num = 0 THEN NaN ELSE Infinity(IF a.num < 0 THEN 0 - 1 ELSE 1)
    ELSE LET n == a.num * b.den * (IF b.num < 0 THEN 0 - 1 ELSE 1)
             d == a.den * Abs(b.num)
             g == Gcd(Abs(n), d)
         IN  Finite(n \div g, d \div g)

\* What the price field can hold: empty (NaN), 0, 10, -3.
Prices == { NaN, Finite(0, 1), Finite(10, 1), Finite(0 - 3, 1) }

\* What the quantity field can hold: empty (NaN), 0, 3, 4.
Quantities == { NaN, Finite(0, 1), Finite(3, 1), Finite(4, 1) }

\* useState({ productName: '', price: 0, quantity: 0, ... })
EmptyProduct == [price |-> Finite(0, 1), quantity |-> Finite(0, 1)]

\* A variant an edited item already carries: 10 for 4, stored with 2.5.
StoredProduct ==
  [price |-> Finite(10, 1), quantity |-> Finite(4, 1), pricePerUnit |-> Finite(5, 2)]

\* AddItemModal opens without products; EditItemModal opens on the item's.
InitProducts ==
  /\ props \in { [modal |-> "add", products |-> <<>>, currentProduct |-> EmptyProduct],
                 [modal |-> "edit", products |-> <<>>, currentProduct |-> EmptyProduct],
                 [modal |-> "edit", products |-> <<StoredProduct>>,
                  currentProduct |-> EmptyProduct] }
  /\ shown = NoProps
  /\ renderPc = "input"
  /\ ViewsIdle

\* The price and quantity fields' onChange: parseFloat(e.target.value).
SetCurrentProduct ==
  /\ "modal" \in DOMAIN props
  /\ \E p \in Prices, q \in Quantities :
       /\ [price |-> p, quantity |-> q] # props.currentProduct
       /\ props' = [props EXCEPT !.currentProduct = [price |-> p, quantity |-> q]]
  /\ UNCHANGED <<shown, renderPc, outsideRender>>

\* AddItemModal.handleAddProduct
AddModalHandleAddProduct ==
  /\ "modal" \in DOMAIN props /\ props.modal = "add"
  /\ Len(props.products) < MaxProducts
  /\ LET pricePerUnit == Divide(props.currentProduct.price, props.currentProduct.quantity)
     IN  props' = [props EXCEPT
                     !.products = Append(@, props.currentProduct @@
                                              [pricePerUnit |-> pricePerUnit]),
                     !.currentProduct = EmptyProduct]
  /\ UNCHANGED <<shown, renderPc, outsideRender>>

\* EditItemModal.handleAddProduct
EditModalHandleAddProduct ==
  /\ "modal" \in DOMAIN props /\ props.modal = "edit"
  /\ Len(props.products) < MaxProducts
  /\ LET pricePerUnit == Divide(props.currentProduct.price, props.currentProduct.quantity)
     IN  props' = [props EXCEPT
                     !.products = Append(@, props.currentProduct @@
                                              [pricePerUnit |-> pricePerUnit]),
                     !.currentProduct = EmptyProduct]
  /\ UNCHANGED <<shown, renderPc, outsideRender>>

NextProducts ==
  \/ SetCurrentProduct
  \/ AddModalHandleAddProduct
  \/ EditModalHandleAddProduct

SpecProducts == InitProducts /\ [][NextProducts]_vars

\* v is price / quantity: the finite value whose product with the quantity
\* is the price; non-finite when the quantity is 0; NaN when a field is NaN.
IsQuotient(v, price, quantity) ==
  IF price.kind = "NaN" \/ quantity.kind = "NaN" THEN v = NaN
  ELSE IF quantity.num = 0 THEN v.kind # "finite"
  ELSE /\ v.kind = "finite"
       /\ v.num * quantity.num * price.den = price.num * v.den * quantity.den

(***************************************************************************)
(* C23: every product variant added through the add-variant action of the *)
(* shopping item forms has pricePerUnit = price / quantity of the fields   *)
(* at the moment it is added (10 and 4 give 2.5); a quantity of 0 yields a *)
(* non-finite value, and the add completes: it is never refused, the       *)
(* variant is appended and the variants before it stay as they were.       *)
(***************************************************************************)
C23_PricePerUnit ==
  /\ []("modal" \in DOMAIN props =>
          /\ Len(props.products) < MaxProducts =>
               ENABLED (AddModalHandleAddProduct \/ EditModalHandleAddProduct)
          /\ Divide(Finite(10, 1), Finite(4, 1)) = Finite(5, 2))
  /\ [][("modal" \in DOMAIN props /\ props'.products # props.products) =>
          LET c == props.currentProduct
              n == Len(props'.products)
              v == props'.products[n]
          IN  /\ n = Len(props.products) + 1
              /\ SubSeq(props'.products, 1, n - 1) = props.products
              /\ v.price = c.price /\ v.quantity = c.quantity
              /\ IsQuotient(v.pricePerUnit, c.price, c.quantity)]_vars

\* 10 for 4 was added at 2.5, then 10 for 0 at Infinity.
C23_Witness ==
  /\ "modal" \in DOMAIN props /\ props.modal = "add"
  /\ Len(props.products) = 2
  /\ props.products[1].pricePerUnit = Finite(5, 2)
  /\ props.products[1].quantity = Finite(4, 1)
  /\ props.products[2].quantity = Finite(0, 1)
  /\ props.products[2].pricePerUnit = Infinity(1)

(***************************************************************************)
(* C24: when two mutation handlers of the same view are started before     *)
(* either remote call has resolved and both calls succeed, the resulting   *)
(* in-memory collection reflects both mutations and equals the content of  *)
(* the store.  The step looked at is the one in which the last of the two  *)
(* calls succeeds; both were invoked with the list in memory equal to the  *)
(* stored one and the fetch done.                                          *)
(***************************************************************************)
C24_ConcurrentMutationsMirror ==
  [][\A o \in ivOps :
       (/\ ivOps = {o} /\ ivOps' = {}
        /\ storeInventory' # storeInventory
        /\ o.synced /\ o.overlapped /\ ~o.peerFailed)
       => ivInventory' = ListAll(storeInventory')]_vars

------------------------------------------------------------------------------
(* C25 *)

(***************************************************************************)
(* C25: add missing ingredients only ever writes Shopping Items for        *)
(* ingredients that no item of the store's inventory matches, whatever the *)
(* state of the view's fetches when the user clicks: every step that       *)
(* writes an item writes one for an ingredient that is not in stock in the *)
(* store.                                                                  *)
(***************************************************************************)
C25_WritesOnlyMissing ==
  [][(addPc = "writing" /\ storeItems' # storeItems) =>
       ~CheckIngredientInStock(NameOf(missing[addK + 1]), storeInventory)]_vars

------------------------------------------------------------------------------
(* C26 *)

(***************************************************************************)
(* C26: after a new shopping list is created by handleAddList and made the *)
(* current list, the in-memory items collection holds only items of that   *)
(* new list: in the step in which the list is stored and becomes current,  *)
(* every item in memory afterwards is a document of the current list's     *)
(* sub-collection.                                                         *)
(***************************************************************************)
C26_NewListShowsItsItems ==
  [][\A o \in OpsOf("addList") :
       (ops' = ops \ {o} /\ storeLists' # storeLists) =>
         /\ slCurrentList' \in IdsOf(storeLists') \ IdsOf(storeLists)
         /\ \A k \in 1..Len(items') :
              \E j \in 1..Len(storeItems'[slCurrentList']) :
                storeItems'[slCurrentList'][j] = items'[k]]_vars

------------------------------------------------------------------------------
(* C27 *)

(***************************************************************************)
(* C27: in the Shopping view the selected item ids are always ids of       *)
(* in-memory items: no selected id refers to an item that has been         *)
(* removed.                                                                *)
(***************************************************************************)
C27_SelectionWithinItems ==
  \A j \in 1..Len(selectedItems) : selectedItems[j] \in IdsOf(items)

------------------------------------------------------------------------------
(* C28 *)

\* The edit form is cancelled in this step.
EditCancelled ==
  diaryModal = "edit" /\ diaryModal' = "closed" /\ diaryOps' = diaryOps

\* A save of the edit form is rejected in this step.
EditSaveFailed ==
  /\ diaryModal = "edit"
  /\ \E o \in DiaryOpsOf("diaryEdit") : diaryOps' = diaryOps \ {o}
  /\ storeDiary' = storeDiary
  /\ diaryModal' = "edit"

(***************************************************************************)
(* C28: when the Diary edit form, opened on an entry, is cancelled or its  *)
(* save fails, the in-memory entry still has the four meal lists it had    *)
(* when the form was opened, whatever meal texts were typed meanwhile.     *)
(***************************************************************************)
C28_CancelLeavesEntries ==
  [][(EditCancelled \/ EditSaveFailed)
       => \A k \in 1..Len(entries') :
            entries'[k].id = openedEntry.id
              => entries'[k].meals = openedEntry.meals]_vars

------------------------------------------------------------------------------
(* C29 *)

(***************************************************************************)
(* C29: the Diary view's in-memory entries are ordered by date, newest     *)
(* first, in every reachable state.                                        *)
(***************************************************************************)
C29_NewestFirst ==
  \A i, j \in 1..Len(entries) : i < j => entries[i].date >= entries[j].date

------------------------------------------------------------------------------
(* C30 *)

\* handleAddMissingIngredients is called in this step, for a recipe with a
\* defined ingredient list.
AddMissingCalled ==
  addPc = "idle" /\ addPc' # "idle" /\ "ingredients" \in DOMAIN recipe

\* The recipe card shows the 'All in Stock' badge.
Badged == HasAllIngredientsInStock(recipe, inventory)

\* The badge is shown exactly when the handler's list of missing ingredients
\* is empty, and no item is written unless something is missing.
BadgeIffNothingMissing ==
  /\ [][(AddMissingCalled /\ addPc' \in {"writing", "done"})
          => (Badged <=> missing' = <<>>)]_vars
  /\ [][(AddMissingCalled /\ Badged) => addPc' \in {"done", "returned"}]_vars
  /\ [][storeItems' # storeItems => (addPc = "writing" /\ missing # <<>>)]_vars

\* C30 (as stated): for a recipe with a defined ingredient list the badge is
\* shown exactly when the list of missing ingredients is empty, a badged
\* recipe never causes a shopping item to be written, and a recipe without
\* the badge always causes at least one to be written.
C30_Original ==
  /\ BadgeIffNothingMissing
  /\ [][(/\ "ingredients" \in DOMAIN recipe
         /\ addPc \in {"idle", "writing"}
         /\ addPc' \in {"returned", "done", "failed"}
         /\ IF addPc = "idle" THEN ~Badged ELSE missing # <<>>)
          => storeItems' # InitialItems(storeLists)]_vars

(***************************************************************************)
(* C30 (amended): for a recipe with a defined ingredient list the badge is *)
(* shown exactly when the list of missing ingredients the add-missing      *)
(* workflow computes is empty; a badged recipe never causes a shopping     *)
(* item to be written; a recipe without the badge, when a shopping list is *)
(* current, makes the workflow attempt a write, and at least one item has  *)
(* been written once its first write succeeded.  Without a current list    *)
(* the handler returns, and after a rejected first write it ends, with     *)
(* nothing written.                                                        *)
(***************************************************************************)
C30_BadgeMatchesMissing ==
  /\ BadgeIffNothingMissing
  /\ [][(AddMissingCalled /\ ~Badged)
          => IF currentList = NoList
               THEN addPc' = "returned" /\ storeItems' = storeItems
               ELSE addPc' = "writing" /\ missing' # <<>>]_vars
  /\ []((addPc \in {"writing", "done", "failed"} /\ addK >= 1)
          => Len(storeItems[addList]) > Len(InitialItems(storeLists)[addList]))
  /\ []((addPc = "failed" /\ addK = 0) => storeItems = InitialItems(storeLists))

\* The workflow ran for a badged recipe with an ingredient, over a loaded
\* inventory, and ended with its alert and nothing written.
C30_Witness ==
  /\ addPc = "done"
  /\ alerted
  /\ "ingredients" \in DOMAIN recipe
  /\ Len(recipe.ingredients) > 0
  /\ inventory # <<>>
  /\ Badged
  /\ missing = <<>>
  /\ storeItems = InitialItems(storeLists)

====
